---- MODULE Spec2Model ----
(***************************************************************************)
(* Model of gabrielee5/scouting-charts: the Bybit market data fetcher and  *)
(* its on-disk cache (data_fetcher.py), the two trend analyzers            *)
(* (market_b.py: moving average, market_a.py: volatility band) and the     *)
(* analysis snapshot storage (market_storage.py).                          *)
(*                                                                         *)
(* Text is modelled as a sequence of one-character strings, so that        *)
(* concatenation, substring tests, glob matching and int() parsing are     *)
(* computed and not assumed.  Real numbers are kept exact: a percentage or *)
(* a distance is compared by cross-multiplication of integers.             *)
(***************************************************************************)
EXTENDS Integers, Sequences, FiniteSets, TLC

VARIABLES
    cp_days,      \* calculate_required_points: argument days
    cp_interval,  \* calculate_required_points: argument interval
    cp_out,       \* calculate_required_points: outcome of the call
    st_clock,     \* storage: the wall clock, in ticks
    st_files,     \* storage: the snapshot directory, file name -> file
    st_saved,     \* storage: the save_analysis calls made, in call order
    st_last,      \* storage: the last call of MarketDataStorage and its result
    f_clock,      \* fetcher: the wall clock, in hours
    f_cfg,        \* fetcher: the interval and days of the run
    f_dir,        \* fetcher: the cache directory, file name -> file
    f_scan,       \* fetcher: the fetch_all_market_data call in progress
    f_last,       \* fetcher: the last get_kline_data / get_all_symbols call
    m_analyzer,   \* analyzers: the MarketAnalyzer constructed
    m_market,     \* analyzers: the market_data mapping
    m_out,        \* analyzers: what analyze_market returned
    u_args,       \* a method called on its own: the method and its arguments
    u_out,        \* a method called on its own: what it returned
    pb,           \* loading_bar: the progress bar and the loop feeding it
    mn            \* main.main: the position of the run and its locals

pointsVars == <<cp_days, cp_interval, cp_out>>

storeVars == <<st_clock, st_files, st_saved, st_last>>

fetchVars == <<f_clock, f_cfg, f_dir, f_scan, f_last>>

marketVars == <<m_analyzer, m_market, m_out>>

callVars == <<u_args, u_out>>

progressVars == <<pb>>

mainVars == <<mn>>

exceptPoints == <<storeVars, fetchVars, marketVars, callVars, progressVars, mainVars>>

exceptStore == <<pointsVars, fetchVars, marketVars, callVars, progressVars, mainVars>>

exceptFetch == <<pointsVars, storeVars, marketVars, callVars, progressVars, mainVars>>

exceptMarket == <<pointsVars, storeVars, fetchVars, callVars, progressVars, mainVars>>

exceptCall == <<pointsVars, storeVars, fetchVars, marketVars, progressVars, mainVars>>

exceptProgress == <<pointsVars, storeVars, fetchVars, marketVars, callVars, mainVars>>

exceptMain == <<pointsVars, fetchVars, marketVars, callVars, progressVars>>

vars == <<cp_days, cp_interval, cp_out, st_clock, st_files, st_saved, st_last,
          f_clock, f_cfg, f_dir, f_scan, f_last, m_analyzer, m_market, m_out,
          u_args, u_out, pb, mn>>

(***************************************************************************)
(* Bounds of the model.                                                    *)
(***************************************************************************)
MaxDays == 3

\* storage: the ticks the wall clock runs for
MaxTicks == 4

\* storage: the assets of an assets_analysis mapping
MaxAssets == 3

\* fetcher: the hours the wall clock runs for
MaxClock == 5

\* fetcher: the rows of a kline response
MaxRows == 2

\* fetcher: the instruments of an instrument-list response
MaxInstruments == 3

\* analyzers: the symbols of a market_data mapping
MaxMarket == 2

\* analyzers: the SMA period
MaxPeriod == 3

(***************************************************************************)
(* Text.                                                                   *)
(***************************************************************************)
Digits == <<"0", "1", "2", "3", "4", "5", "6", "7", "8", "9">>

IsDigit(c) == \E i \in 1..Len(Digits) : Digits[i] = c

DigitVal(c) == (CHOOSE i \in 1..Len(Digits) : Digits[i] = c) - 1

RECURSIVE DigitsVal(_)
DigitsVal(s) ==
    IF s = <<>> THEN 0
    ELSE 10 * DigitsVal(SubSeq(s, 1, Len(s) - 1)) + DigitVal(s[Len(s)])

\* int(text): the value of a decimal numeral, ValueError for anything else
ParseInt(s) ==
    IF Len(s) > 0 /\ \A i \in 1..Len(s) : IsDigit(s[i])
    THEN [raised |-> FALSE, val |-> DigitsVal(s)]
    ELSE [raised |-> TRUE, val |-> 0]

RECURSIVE NatToStr(_)
\* str(n) for n >= 0, as in the f-string f"{interval}min"
NatToStr(n) ==
    IF n < 10 THEN <<Digits[n + 1]>>
    ELSE NatToStr(n \div 10) \o <<Digits[(n % 10) + 1]>>

\* Python's `sub in s` on text
Contains(s, sub) ==
    \E i \in 1..(Len(s) - Len(sub) + 1) : SubSeq(s, i, i + Len(sub) - 1) = sub

StartsWith(s, pre) == Len(s) >= Len(pre) /\ SubSeq(s, 1, Len(pre)) = pre

EndsWith(s, suf) ==
    Len(s) >= Len(suf) /\ SubSeq(s, Len(s) - Len(suf) + 1, Len(s)) = suf

Min(a, b) == IF a <= b THEN a ELSE b

(***************************************************************************)
(* Intervals.  An interval argument is text ('60', 'D') or a number (60):  *)
(* market_a.main passes interval=60, the other callers pass text.          *)
(***************************************************************************)
StrInterval(s) == [isStr |-> TRUE, s |-> s, n |-> 0]

NumInterval(n) == [isStr |-> FALSE, s |-> <<>>, n |-> n]

CalendarCodes == {<<"D">>, <<"W">>, <<"M">>}

\* the minute intervals of the docstring, as numbers
MinuteValues == {1, 3, 5, 15, 30, 60, 120, 240, 360, 720}

DocumentedIntervals ==
    {StrInterval(c) : c \in CalendarCodes}
        \cup {StrInterval(NatToStr(m)) : m \in MinuteValues}
        \cup {NumInterval(m) : m \in MinuteValues}

\* arguments outside the documented domain: int('x') and a division by zero
UndocumentedIntervals == {StrInterval(<<"x">>), StrInterval(<<"0">>), NumInterval(0)}

\* `interval in ['D', 'W', 'M']`
IsCalendar(interval) == interval.isStr /\ interval.s \in CalendarCodes

\* `int(interval) if isinstance(interval, str) else interval`
IntervalMinutes(interval) ==
    IF interval.isStr THEN ParseInt(interval.s)
    ELSE [raised |-> FALSE, val |-> interval.n]

\* `min(points, 1000)`: Bybit's limit of points per request
PointsLimit == 1000

PointsNoClamp(days, interval) ==
    IF IsCalendar(interval)
    THEN [raised |-> FALSE,
          val |-> IF interval.s = <<"D">> THEN days
                  ELSE IF interval.s = <<"W">> THEN days \div 7 + 1
                  ELSE days \div 30 + 1]
    ELSE LET m == IntervalMinutes(interval) IN
         IF m.raised \/ m.val = 0 THEN [raised |-> TRUE, val |-> 0]
         ELSE [raised |-> FALSE, val |-> (days * 24 * 60) \div m.val]

PointsWeekFloor(days, interval) ==
    LET r == PointsNoClamp(days, interval) IN
    IF IsCalendar(interval) /\ interval.s = <<"W">>
    THEN [raised |-> FALSE, val |-> Min(days \div 7, PointsLimit)]
    ELSE [raised |-> r.raised, val |-> Min(r.val, PointsLimit)]

\* BybitDataFetcher.calculate_required_points; raised: the call raises
\* (ValueError from int(), ZeroDivisionError from // 0)
calculate_required_points(days, interval) ==
    LET r == PointsNoClamp(days, interval) IN
    [raised |-> r.raised, val |-> IF r.raised THEN 0 ELSE Min(r.val, PointsLimit)]

(***************************************************************************)
(* The on-disk cache of the fetcher.  The cache directory is a function    *)
(* from file name to [rows, list, mtime, corrupt]: rows is the table of a  *)
(* parquet file (its timestamps, in row order), list the symbols of        *)
(* symbols.json, corrupt a file whose content cannot be read back.  The    *)
(* clock and st_mtime count hours.                                         *)
(***************************************************************************)
\* `self.cache_duration = timedelta(hours=4)`
CacheDurationHours == 4

ParquetSuffix == <<".", "p", "a", "r", "q", "u", "e", "t">>

MinText == <<"m", "i", "n">>

\* `interval if isinstance(interval, str) else f"{interval}min"`
IntervalStr(interval) ==
    IF interval.isStr THEN interval.s ELSE NatToStr(interval.n) \o MinText

\* BybitDataFetcher._get_cache_path
get_cache_path(symbol, interval) ==
    symbol \o <<"_">> \o IntervalStr(interval) \o ParquetSuffix

SymbolsPath == <<"s", "y", "m", "b", "o", "l", "s", ".", "j", "s", "o", "n">>

\* a check that still accepts a file exactly cache_duration old
CacheValidInclusive(dir, path, now) ==
    /\ path \in DOMAIN dir
    /\ now - dir[path].mtime <= CacheDurationHours

\* BybitDataFetcher._is_cache_valid
is_cache_valid(dir, path, now) ==
    /\ path \in DOMAIN dir
    /\ now - dir[path].mtime < CacheDurationHours

\* a file written whole, and a file a failed write left behind
GoodFile(rows, list, now) == [rows |-> rows, list |-> list, mtime |-> now, corrupt |-> FALSE]

BrokenFile(now) == [rows |-> <<>>, list |-> <<>>, mtime |-> now, corrupt |-> TRUE]

PutFile(dir, path, file) ==
    [x \in DOMAIN dir \cup {path} |-> IF x = path THEN file ELSE dir[x]]

\* df.to_parquet(path) / json.dump(symbols, f) under `try`: the write
\* succeeds ("ok"), fails before the file is opened ("denied"), or fails
\* after the file was truncated ("partial"); a failure is logged
WriteCache(dir, path, file, now, write) ==
    IF write = "ok" THEN PutFile(dir, path, file)
    ELSE IF write = "partial" THEN PutFile(dir, path, BrokenFile(now))
    ELSE dir

WriteOutcomes == {"ok", "denied", "partial"}

HeadRows(rows, n) == IF n >= Len(rows) THEN rows ELSE SubSeq(rows, 1, n)

\* df.tail(n)
TailRows(rows, n) ==
    IF n >= Len(rows) THEN rows ELSE SubSeq(rows, Len(rows) - n + 1, Len(rows))

\* the place of a timestamp in an ascending table
InsertRow(sorted, t) ==
    LET k == Cardinality({i \in 1..Len(sorted) : sorted[i] <= t}) IN
    SubSeq(sorted, 1, k) \o <<t>> \o SubSeq(sorted, k + 1, Len(sorted))

RECURSIVE SortRows(_)
\* df.sort_values('timestamp').reset_index(drop=True)
SortRows(list) ==
    IF list = <<>> THEN <<>>
    ELSE InsertRow(SortRows(SubSeq(list, 1, Len(list) - 1)), list[Len(list)])

(***************************************************************************)
(* get_kline_data.  resp is what session.get_kline does when called:       *)
(* "raise" (network, authentication), "nolist" (no result list),           *)
(* "badrows" (rows the DataFrame construction or pd.to_numeric rejects),   *)
(* "rows" (the list of rows, newest first or unordered).  Each step        *)
(* answers [exc, ret, requested, dir]: exc when an exception leaves it.    *)
(***************************************************************************)
KlineOut(exc, ret, requested, dir) ==
    [exc |-> exc, ret |-> ret, requested |-> requested, dir |-> dir]

\* a cache read that takes a table however short it is
CacheReadAnyLength(dir, path, days, interval) ==
    LET required == calculate_required_points(days, interval) IN
    IF dir[path].corrupt \/ required.raised
    THEN [hit |-> FALSE, ret |-> <<>>]
    ELSE [hit |-> TRUE, ret |-> TailRows(dir[path].rows, required.val)]

\* lines 97-104: the cache read under `try`; hit is FALSE when the read
\* raised, required-points raised, or the table is too short
CacheRead(dir, path, days, interval) ==
    LET required == calculate_required_points(days, interval) IN
    IF dir[path].corrupt \/ required.raised \/ Len(dir[path].rows) < required.val
    THEN [hit |-> FALSE, ret |-> <<>>]
    ELSE [hit |-> TRUE, ret |-> TailRows(dir[path].rows, required.val)]

\* a fetch that caches the table whatever use_cache says
FetchAlwaysWrites(dir, now, symbol, interval, days, use_cache, resp, write) ==
    LET points_needed == calculate_required_points(days, interval) IN
    IF points_needed.raised THEN KlineOut(TRUE, <<>>, FALSE, dir)
    ELSE IF resp.kind = "raise" THEN KlineOut(TRUE, <<>>, TRUE, dir)
    ELSE IF resp.kind = "nolist" \/ resp.list = <<>> THEN KlineOut(FALSE, <<>>, TRUE, dir)
    ELSE IF resp.kind = "badrows" THEN KlineOut(TRUE, <<>>, TRUE, dir)
    ELSE LET df == SortRows(resp.list) IN
         KlineOut(FALSE, df, TRUE,
                  WriteCache(dir, get_cache_path(symbol, interval),
                             GoodFile(df, <<>>, now), now, write))

\* lines 107-156: the body of the second `try`
FetchFresh(dir, now, symbol, interval, days, use_cache, resp, write) ==
    LET points_needed == calculate_required_points(days, interval) IN
    IF points_needed.raised THEN KlineOut(TRUE, <<>>, FALSE, dir)
    ELSE IF resp.kind = "raise" THEN KlineOut(TRUE, <<>>, TRUE, dir)
    ELSE IF resp.kind = "nolist" \/ resp.list = <<>> THEN KlineOut(FALSE, <<>>, TRUE, dir)
    ELSE IF resp.kind = "badrows" THEN KlineOut(TRUE, <<>>, TRUE, dir)
    ELSE LET df == SortRows(resp.list) IN
         KlineOut(FALSE, df, TRUE,
                  IF use_cache
                  THEN WriteCache(dir, get_cache_path(symbol, interval),
                                  GoodFile(df, <<>>, now), now, write)
                  ELSE dir)

KlinePropagate(out) == out

\* lines 158-160: `except Exception` answers an empty table
KlineExcept(out) ==
    IF out.exc THEN KlineOut(FALSE, <<>>, out.requested, out.dir) ELSE out

\* BybitDataFetcher.get_kline_data
get_kline_data(dir, now, symbol, interval, days, use_cache, resp, write) ==
    LET cache_path == get_cache_path(symbol, interval)
        read == IF use_cache /\ is_cache_valid(dir, cache_path, now)
                THEN CacheRead(dir, cache_path, days, interval)
                ELSE [hit |-> FALSE, ret |-> <<>>]
    IN IF read.hit THEN KlineOut(FALSE, read.ret, FALSE, dir)
       ELSE KlineExcept(FetchFresh(dir, now, symbol, interval, days, use_cache, resp, write))

(***************************************************************************)
(* get_all_symbols.  resp is what session.get_instruments_info does:       *)
(* "raise", "badshape" (no result list, or an item without 'symbol'),      *)
(* "list" (the instruments, as their symbols).                             *)
(***************************************************************************)
Usdt == <<"U", "S", "D", "T">>

SelectAll(list) == list

RECURSIVE SelectUsdt(_)
\* [item['symbol'] for item in ... if 'USDT' in item['symbol']]
SelectUsdt(list) ==
    IF list = <<>> THEN <<>>
    ELSE IF Contains(Head(list), Usdt) THEN <<Head(list)>> \o SelectUsdt(Tail(list))
    ELSE SelectUsdt(Tail(list))

SymbolsOut(exc, ret, requested, dir) ==
    [exc |-> exc, ret |-> ret, requested |-> requested, dir |-> dir]

\* lines 174-193: the body of the second `try`
FetchSymbols(dir, now, resp, write) ==
    IF resp.kind # "list" THEN SymbolsOut(TRUE, <<>>, TRUE, dir)
    ELSE LET symbols == SelectUsdt(resp.list) IN
         SymbolsOut(FALSE, symbols, TRUE,
                    WriteCache(dir, SymbolsPath, GoodFile(<<>>, symbols, now), now, write))

\* lines 195-197: `except Exception` answers []
SymbolsExcept(out) ==
    IF out.exc THEN SymbolsOut(FALSE, <<>>, out.requested, out.dir) ELSE out

\* BybitDataFetcher.get_all_symbols
get_all_symbols(dir, now, resp, write) ==
    IF is_cache_valid(dir, SymbolsPath, now) /\ ~dir[SymbolsPath].corrupt
    THEN SymbolsOut(FALSE, dir[SymbolsPath].list, FALSE, dir)
    ELSE SymbolsExcept(FetchSymbols(dir, now, resp, write))

(***************************************************************************)
(* Exact real values.  A percentage or a distance is a float in the code;  *)
(* it is kept here as the reduced fraction n/d of its exact value, so that *)
(* two equal values are equal records.                                     *)
(***************************************************************************)
RECURSIVE GCD(_, _)
GCD(a, b) == IF b = 0 THEN a ELSE GCD(b, a % b)

Frac(n, d) ==
    IF n = 0 THEN [n |-> 0, d |-> 1]
    ELSE LET g == GCD(n, d) IN [n |-> n \div g, d |-> d \div g]

FracLess(a, b) == a.n * b.d < b.n * a.d

Abs(x) == IF x < 0 THEN -x ELSE x

\* `(count / valid_assets * 100) if valid_assets > 0 else 0`
Percentage(count, valid_assets) ==
    IF valid_assets > 0 THEN Frac(count * 100, valid_assets) ELSE Frac(0, 1)

(***************************************************************************)
(* The analyzers (market_b.py, market_a.py).  A table is the sequence of   *)
(* its rows [timestamp, high, low, close], oldest first, the timestamp in  *)
(* minutes since the midnight before the first row; open, volume and       *)
(* turnover are carried by the code but never read for a result.  A float  *)
(* of a column is [nan, n, d]: NaN, or the reduced fraction n/d.           *)
(***************************************************************************)
NaN == [nan |-> TRUE, n |-> 0, d |-> 1]

Num(n, d) == LET f == Frac(n, d) IN [nan |-> FALSE, n |-> f.n, d |-> f.d]

NumAdd(a, b) ==
    IF a.nan \/ b.nan THEN NaN ELSE Num(a.n * b.d + b.n * a.d, a.d * b.d)

NumSub(a, b) ==
    IF a.nan \/ b.nan THEN NaN ELSE Num(a.n * b.d - b.n * a.d, a.d * b.d)

NumMul(a, b) == IF a.nan \/ b.nan THEN NaN ELSE Num(a.n * b.n, a.d * b.d)

NumAbs(a) == IF a.nan THEN NaN ELSE Num(Abs(a.n), a.d)

\* a comparison with NaN is False
NumGt(a, b) == ~a.nan /\ ~b.nan /\ a.n * b.d > b.n * a.d

NumLt(a, b) == ~a.nan /\ ~b.nan /\ a.n * b.d < b.n * a.d

RECURSIVE NumSum(_, _, _)
\* the sum of series[from..to], none of them NaN
NumSum(series, from, to) ==
    IF from > to THEN Num(0, 1)
    ELSE IF from = to THEN series[from]
    ELSE LET mid == (from + to) \div 2
         IN NumAdd(NumSum(series, from, mid), NumSum(series, mid + 1, to))

\* Series.rolling(window=window).mean(): NaN until the window holds
\* `window` values that are not NaN
RollingMean(series, window) ==
    [i \in 1..Len(series) |->
        IF i < window \/ (\E j \in (i - window + 1)..i : series[j].nan) THEN NaN
        ELSE NumMul(NumSum(series, i - window + 1, i), Num(1, window))]

\* Series.diff()
Diff(series) ==
    [i \in 1..Len(series) |-> IF i = 1 THEN NaN ELSE NumSub(series[i], series[i - 1])]

Close(df) == [i \in 1..Len(df) |-> Num(df[i].close, 1)]

\* `(analysis_df['Trend'].diff() != 0).sum()`: the first row's diff is NaN
TrendChanges(trend) ==
    Cardinality({i \in 1..Len(trend) : i = 1 \/ trend[i] # trend[i - 1]})

\* the rows price_change_24h needs
DayRows == 24

NoChange == [none |-> TRUE, val |-> NaN]

\* `(Close.iloc[-1] / Close.iloc[-24] - 1) * 100 if len(analysis_df) >= 24 else None`
PriceChange24h(df) ==
    IF Len(df) >= DayRows
    THEN [none |-> FALSE,
          val |-> Num((df[Len(df)].close - df[Len(df) - DayRows + 1].close) * 100,
                      df[Len(df) - DayRows + 1].close)]
    ELSE NoChange

NeutralNotUp(valid_assets, uptrend_count, downtrend_count) == valid_assets - uptrend_count

\* `valid_assets - uptrend_count - downtrend_count`
NeutralCount(valid_assets, uptrend_count, downtrend_count) ==
    valid_assets - uptrend_count - downtrend_count

\* lines 108-115 of market_b.py, 198-205 of market_a.py
MarketStats(valid_assets, uptrend_count, downtrend_count) ==
    [total_assets |-> valid_assets,
     uptrend_percentage |-> Percentage(uptrend_count, valid_assets),
     downtrend_percentage |-> Percentage(downtrend_count, valid_assets),
     neutral_percentage |->
         Percentage(NeutralCount(valid_assets, uptrend_count, downtrend_count),
                    valid_assets)]

\* the counters of the loop over market_data.items(), after its last turn
CountTrend(assets_analysis, trend) ==
    Cardinality({i \in 1..Len(assets_analysis) :
                    assets_analysis[i].analysis.current_trend = trend})

AnalysisResult(assets_analysis) ==
    [market_stats |-> MarketStats(Len(assets_analysis),
                                  CountTrend(assets_analysis, 1),
                                  CountTrend(assets_analysis, -1)),
     assets_analysis |-> assets_analysis]

(***************************************************************************)
(* market_b.py: the Moving-Average analyzer.                               *)
(***************************************************************************)
\* SMAIndicator.calculate: the SMA column
SMA(df, period) == RollingMean(Close(df), period)

\* a Trend column that looks at the side of the SMA the close is on only
TrendPriceOnly(df, period) ==
    LET sma == SMA(df, period)
        close == Close(df)
    IN [i \in 1..Len(df) |->
           IF NumLt(close[i], sma[i]) THEN -1
           ELSE IF NumGt(close[i], sma[i]) THEN 1
           ELSE 0]

\* market_b.TrendDetector.detect_trend: the Trend column
market_b_detect_trend(df, period) ==
    LET sma == SMA(df, period)
        SMA_Change == Diff(sma)
        close == Close(df)
    IN [i \in 1..Len(df) |->
           IF NumLt(close[i], sma[i]) /\ NumLt(SMA_Change[i], Num(0, 1)) THEN -1
           ELSE IF NumGt(close[i], sma[i]) /\ NumGt(SMA_Change[i], Num(0, 1)) THEN 1
           ELSE 0]

\* market_b.MarketAnalyzer.analyze_asset, of a table that is not empty
market_b_analyze_asset(df, period) ==
    LET Trend == market_b_detect_trend(df, period) IN
    [current_trend |-> Trend[Len(df)],
     trend_changes |-> TrendChanges(Trend),
     last_price |-> df[Len(df)].close,
     price_change_24h |-> PriceChange24h(df),
     sma |-> SMA(df, period)[Len(df)]]

TooShortOrEqual(df, period) == Len(df) <= period

\* `if len(df) < self.trend_detector.sma_indicator.period: continue`
TooShort(df, period) == Len(df) < period

\* market_b.MarketAnalyzer.analyze_market; market_data and assets_analysis
\* are the sequences of the dicts' items, in insertion order
market_b_analyze_market(market_data, period) ==
    LET kept == SelectSeq(market_data, LAMBDA item : ~TooShort(item.df, period))
    IN AnalysisResult([i \in 1..Len(kept) |->
                          [symbol |-> kept[i].symbol,
                           analysis |-> market_b_analyze_asset(kept[i].df, period)]])

(***************************************************************************)
(* market_a.py: the ATR analyzer.  atr is the ModifiedATR of the trend     *)
(* detector: [period, resample_interval, multiplier].                      *)
(***************************************************************************)
\* the left edge of the resample bin a timestamp falls in
BinLabel(timestamp, resample_interval) ==
    (timestamp \div resample_interval) * resample_interval

SetMax(S) == CHOOSE x \in S : \A y \in S : y <= x

SetMin(S) == CHOOSE x \in S : \A y \in S : x <= y

\* ModifiedATR.resample_to_interval: one row per bin from the first row's
\* bin to the last row's, a bin without rows holding NaN
resample_to_interval(df, resample_interval) ==
    LET first == BinLabel(df[1].timestamp, resample_interval)
        last == BinLabel(df[Len(df)].timestamp, resample_interval)
        count == (last - first) \div resample_interval + 1
    IN [k \in 1..count |->
           LET label == first + (k - 1) * resample_interval
               rows == {i \in 1..Len(df) :
                           BinLabel(df[i].timestamp, resample_interval) = label}
           IN IF rows = {}
              THEN [label |-> label, High |-> NaN, Low |-> NaN, Close |-> NaN]
              ELSE [label |-> label,
                    High |-> Num(SetMax({df[i].high : i \in rows}), 1),
                    Low |-> Num(SetMin({df[i].low : i \in rows}), 1),
                    Close |-> Num(df[SetMax(rows)].close, 1)]]

\* the largest of the values that are not NaN, NaN when there is none
NumMax(S) ==
    LET real == {x \in S : ~x.nan} IN
    IF real = {} THEN NaN
    ELSE CHOOSE x \in real : \A y \in real : ~NumGt(y, x)

\* ModifiedATR._calculate_true_range
calculate_true_range(resampled) ==
    [k \in 1..Len(resampled) |->
        LET shifted == IF k = 1 THEN NaN ELSE resampled[k - 1].Close
            tr1 == NumSub(resampled[k].High, resampled[k].Low)
            tr2 == NumAbs(NumSub(resampled[k].High, shifted))
            tr3 == NumAbs(NumSub(resampled[k].Low, shifted))
        IN NumMax({tr1, tr2, tr3})]

\* ModifiedATR._calculate_atr, times the multiplier (line 90)
calculate_atr(resampled, atr) ==
    LET mean == RollingMean(calculate_true_range(resampled), atr.period)
    IN [k \in 1..Len(resampled) |-> NumMul(mean[k], atr.multiplier)]

\* `resampled[col].reindex(df.index).ffill()`: a row takes the value of the
\* bin whose label is its timestamp, else NaN; NaN is then filled with the
\* last value before it that is not
ReindexFfill(col, resampled, df) ==
    LET reindexed ==
            [j \in 1..Len(df) |->
                LET at == {k \in 1..Len(resampled) : resampled[k].label = df[j].timestamp}
                IN IF at = {} THEN NaN ELSE col[CHOOSE k \in at : TRUE]]
    IN [i \in 1..Len(df) |->
           LET known == {j \in 1..i : ~reindexed[j].nan}
           IN IF known = {} THEN NaN ELSE reindexed[SetMax(known)]]

\* ModifiedATR.calculate: the columns Resample_<interval>_ATR and _Close
calculate(df, atr) ==
    LET resampled == resample_to_interval(df, atr.resample_interval)
        ATR == calculate_atr(resampled, atr)
        Close_ == [k \in 1..Len(resampled) |-> resampled[k].Close]
    IN [ATR |-> ReindexFfill(ATR, resampled, df),
        Close |-> ReindexFfill(Close_, resampled, df)]

\* market_a.TrendDetector.detect_trend; the downtrend is assigned last
market_a_detect_trend(df, detector) ==
    LET result_df == calculate(df, detector.atr)
        ma == RollingMean(result_df.Close, detector.trend_period)
        band == [i \in 1..Len(df) |->
                    NumMul(result_df.ATR[i], detector.volatility_multiplier)]
    IN [ATR |-> result_df.ATR,
        Trend |-> [i \in 1..Len(df) |->
                      IF NumLt(result_df.Close[i], NumSub(ma[i], band[i])) THEN -1
                      ELSE IF NumGt(result_df.Close[i], NumAdd(ma[i], band[i])) THEN 1
                      ELSE 0]]

\* Series.mean(): the mean of the values that are not NaN
NumMean(series) ==
    LET real == SelectSeq(series, LAMBDA x : ~x.nan) IN
    IF real = <<>> THEN NaN
    ELSE NumMul(NumSum(real, 1, Len(real)), Num(1, Len(real)))

\* market_a.MarketAnalyzer.analyze_asset, of a table that is not empty
market_a_analyze_asset(df, detector) ==
    LET analysis_df == market_a_detect_trend(df, detector) IN
    [current_trend |-> analysis_df.Trend[Len(df)],
     avg_volatility |-> NumMean(analysis_df.ATR),
     current_volatility |-> analysis_df.ATR[Len(df)],
     trend_changes |-> TrendChanges(analysis_df.Trend),
     last_price |-> df[Len(df)].close,
     price_change_24h |-> PriceChange24h(df)]

\* `if len(df) < 20`
MinRows == 20

\* a filter that lets every volatility pass
NeverQuiet(analysis, min_volatility) == FALSE

\* `self.min_volatility is not None and analysis['avg_volatility'] < self.min_volatility`
TooQuiet(analysis, min_volatility) ==
    ~min_volatility.none /\ NumLt(analysis.avg_volatility, min_volatility.val)

\* market_a.MarketAnalyzer.analyze_market: the turns of the loop that reach
\* analyze_asset, then those that reach `assets_analysis[symbol] = analysis`
market_a_analyze_market(market_data, detector, min_volatility) ==
    LET long == SelectSeq(market_data, LAMBDA item : ~(Len(item.df) < MinRows))
        analysed == [i \in 1..Len(long) |->
                        [symbol |-> long[i].symbol,
                         analysis |-> market_a_analyze_asset(long[i].df, detector)]]
    IN AnalysisResult(SelectSeq(analysed,
                                LAMBDA item : ~TooQuiet(item.analysis, min_volatility)))

(***************************************************************************)
(* Analysis storage (market_storage.py).  The snapshot directory is a      *)
(* function from file name to [content, mtime].  The wall clock counts     *)
(* ticks, TicksPerSecond of them in a second; a file name carries the      *)
(* second of datetime.now(), st_mtime the tick of the write.               *)
(***************************************************************************)
TicksPerSecond == 2

TwoDigits(n) == <<Digits[((n \div 10) % 10) + 1], Digits[(n % 10) + 1]>>

\* timestamp.strftime('%Y%m%d_%H%M%S'), the clock starting at midnight
StrfTime(tick) ==
    LET sec == tick \div TicksPerSecond IN
    <<"2", "0", "2", "4", "0", "1", "0", "1", "_">>
        \o TwoDigits(sec \div 3600) \o TwoDigits((sec \div 60) % 60)
        \o TwoDigits(sec % 60)

\* f"{interval}": the text itself, or the digits of a number
FormatInterval(interval) ==
    IF interval.isStr THEN interval.s ELSE NatToStr(interval.n)

FilePrefix ==
    <<"m", "a", "r", "k", "e", "t", "_", "a", "n", "a", "l", "y", "s", "i", "s", "_">>

JsonSuffix == <<".", "j", "s", "o", "n">>

\* f"market_analysis_{interval}_{timestamp.strftime('%Y%m%d_%H%M%S')}.json"
SnapshotFileName(interval, tick) ==
    FilePrefix \o FormatInterval(interval) \o <<"_">> \o StrfTime(tick) \o JsonSuffix

\* base_dir.glob(f"market_analysis_{interval}_*.json"): `*` is any text
GlobMatch(name, interval) ==
    LET pre == FilePrefix \o FormatInterval(interval) \o <<"_">> IN
    /\ Len(name) >= Len(pre) + Len(JsonSuffix)
    /\ StartsWith(name, pre)
    /\ EndsWith(name, JsonSuffix)

\* `distance = abs(price - sma)/sma * 100`
Distance(price, sma) == Frac(Abs(price - sma) * 100, sma)

\* one entry of trending_assets
TrendingEntry(a) ==
    [symbol |-> a.symbol,
     trend |-> IF a.current_trend = 1 THEN "uptrend" ELSE "downtrend",
     price |-> a.last_price,
     sma |-> a.sma,
     distance |-> Distance(a.last_price, a.sma)]

IsClearTrend(a) == Abs(a.current_trend) = 1

RECURSIVE TrendingAssets(_)
\* the loop over assets_analysis.items(), in the mapping's order
TrendingAssets(assets) ==
    IF assets = <<>> THEN <<>>
    ELSE LET rest == TrendingAssets(Tail(assets)) IN
         IF IsClearTrend(Head(assets))
         THEN <<TrendingEntry(Head(assets))>> \o rest
         ELSE rest

\* the place of e in a list sorted by descending distance: behind every
\* entry whose distance is not smaller (list.sort is stable, also reversed)
InsertDesc(sorted, e) ==
    LET k == Cardinality({i \in 1..Len(sorted) :
                            ~FracLess(sorted[i].distance, e.distance)}) IN
    SubSeq(sorted, 1, k) \o <<e>> \o SubSeq(sorted, k + 1, Len(sorted))

InsertAsc(sorted, e) ==
    LET k == Cardinality({i \in 1..Len(sorted) :
                            ~FracLess(e.distance, sorted[i].distance)}) IN
    SubSeq(sorted, 1, k) \o <<e>> \o SubSeq(sorted, k + 1, Len(sorted))

RECURSIVE SortAscByDistance(_)
SortAscByDistance(list) ==
    IF list = <<>> THEN <<>>
    ELSE InsertAsc(SortAscByDistance(SubSeq(list, 1, Len(list) - 1)), list[Len(list)])

RECURSIVE SortByDistance(_)
\* trending_assets.sort(key=lambda x: x['distance'], reverse=True)
SortByDistance(list) ==
    IF list = <<>> THEN <<>>
    ELSE InsertDesc(SortByDistance(SubSeq(list, 1, Len(list) - 1)), list[Len(list)])

\* list[:n] of Python
SliceTo(list, n) ==
    IF n >= 0 THEN SubSeq(list, 1, Min(n, Len(list)))
    ELSE SubSeq(list, 1, IF Len(list) + n > 0 THEN Len(list) + n ELSE 0)

\* int(total_assets * percentage / 100)
CountFromPercentage(total_assets, pct) == (total_assets * pct.n) \div (pct.d * 100)

\* analysis_data of save_analysis; json.dump / json.load keep text, numbers,
\* lists and objects as they are, so the file content is this record
AnalysisData(tick, market_stats, assets_analysis, interval, top_n) ==
    [timestamp |-> tick,
     interval |-> interval,
     market_summary |->
        [total_assets |-> market_stats.total_assets,
         assets_in_uptrend |->
            CountFromPercentage(market_stats.total_assets, market_stats.uptrend_percentage),
         assets_in_downtrend |->
            CountFromPercentage(market_stats.total_assets, market_stats.downtrend_percentage),
         assets_in_neutral |->
            CountFromPercentage(market_stats.total_assets, market_stats.neutral_percentage),
         uptrend_percentage |-> market_stats.uptrend_percentage,
         downtrend_percentage |-> market_stats.downtrend_percentage,
         neutral_percentage |-> market_stats.neutral_percentage],
     top_trending_assets |-> SliceTo(SortByDistance(TrendingAssets(assets_analysis)), top_n)]

\* open(filename, 'w'): the file is created, or truncated and rewritten
WriteFile(files, name, content, tick) ==
    [x \in DOMAIN files \cup {name} |->
        IF x = name THEN [content |-> content, mtime |-> tick] ELSE files[x]]

\* MarketDataStorage.save_analysis: the directory after the call
save_analysis(files, tick, market_stats, assets_analysis, interval, top_n) ==
    WriteFile(files,
              SnapshotFileName(interval, tick),
              AnalysisData(tick, market_stats, assets_analysis, interval, top_n),
              tick)

\* the files load_latest_analysis lists for an interval
AnalysisFiles(files, interval) == {name \in DOMAIN files : GlobMatch(name, interval)}

OldestFiles(files, interval) ==
    {f \in AnalysisFiles(files, interval) :
        \A g \in AnalysisFiles(files, interval) : files[g].mtime >= files[f].mtime}

\* max(analysis_files, key=st_mtime): a file no other listed file is newer than
LatestFiles(files, interval) ==
    {f \in AnalysisFiles(files, interval) :
        \A g \in AnalysisFiles(files, interval) : files[g].mtime <= files[f].mtime}

EmptyResult == [empty |-> TRUE, data |-> <<>>]

\* MarketDataStorage.load_latest_analysis with latest_file = f; readOk is
\* FALSE when open() or json.load raises, which the method answers with {}
load_latest_analysis(files, interval, f, readOk) ==
    IF AnalysisFiles(files, interval) = {} THEN EmptyResult
    ELSE IF readOk THEN [empty |-> FALSE, data |-> <<files[f].content>>]
    ELSE EmptyResult

(***************************************************************************)
(* Specification of calculate_required_points as a pure function: the      *)
(* arguments are drawn in Init, the action applies the function.           *)
(***************************************************************************)
DaysSample == (0..MaxDays) \cup {7, 10, 30, 40, 105, 999, 1000, 1001, 6999, 7000, 30000}

NoOut == [done |-> FALSE, raised |-> FALSE, val |-> 0]

NoArgs == [op |-> "none"]

NoRet == [done |-> FALSE]

CallIdle ==
    /\ u_args = NoArgs
    /\ u_out = NoRet

\* no tqdm bar is open
NoProgress ==
    [op |-> "none", pc |-> "idle", total |-> 0, n |-> 0, left |-> 0, i |-> 0]

ProgressIdle == pb = NoProgress

NoRun == [pc |-> "idle"]

MainIdle == mn = NoRun

OthersIdle == CallIdle /\ ProgressIdle /\ MainIdle

PointsIdle ==
    /\ cp_days = 0
    /\ cp_interval = StrInterval(<<"D">>)
    /\ cp_out = NoOut

EmptyDir == [x \in {} |-> 0]

NoCall ==
    [op |-> "none", interval |-> StrInterval(<<"D">>), assets |-> <<>>, top_n |-> 0,
     name |-> <<>>, readOk |-> TRUE, result |-> EmptyResult]

\* a new MarketDataStorage on an empty directory
StoreIdle ==
    /\ st_clock = 0
    /\ st_files = EmptyDir
    /\ st_saved = <<>>
    /\ st_last = NoCall

(***************************************************************************)
(* An analyzer at work: a MarketAnalyzer of market_b.py or of market_a.py  *)
(* is constructed and analyze_market is called on a mapping of fetched     *)
(* tables.                                                                 *)
(***************************************************************************)
\* the symbol of the i-th item of a mapping
Sym(i) == <<"S", "Y", "M">> \o NatToStr(i)

\* the minutes between two rows of a fetched table
BarMinutes == 60

ShapeClose(shape, i) ==
    IF shape = "rising" THEN 100 + 10 * i
    ELSE IF shape = "falling" THEN 500 - 10 * i
    ELSE IF shape = "zigzag" THEN 100 + 10 * (i % 2)
    ELSE 100

\* a table of len rows whose first row is stamped start
Bars(shape, len, start) ==
    [i \in 1..len |->
        [timestamp |-> start + (i - 1) * BarMinutes,
         high |-> ShapeClose(shape, i) + 5,
         low |-> ShapeClose(shape, i) - 5,
         close |-> ShapeClose(shape, i)]]

\* tables around the analyzers' thresholds: the SMA period, the 20 rows
\* of market_a and the 24 rows of price_change_24h
TablePool ==
    {Bars("rising", DayRows, 0), Bars("falling", MinRows + 1, 0),
     Bars("flat", MinRows, 0), Bars("rising", MinRows - 1, BarMinutes),
     Bars("falling", MaxPeriod, 0), Bars("zigzag", 2, 0)}

\* the mappings of up to MaxMarket symbols to different tables of the pool
Markets ==
    UNION {{[i \in 1..n |-> [symbol |-> Sym(i), df |-> t[i]]] :
               t \in {u \in [1..n -> TablePool] :
                         \A i, j \in 1..n : i # j => u[i] # u[j]}} :
              n \in 0..MaxMarket}

NoThreshold == [none |-> TRUE, val |-> NaN]

Threshold(n, d) == [none |-> FALSE, val |-> Num(n, d)]

\* SMAIndicator(period), TrendDetector(sma), MarketAnalyzer(detector)
MovingAverageAnalyzer(period) ==
    [kind |-> "b", period |-> period,
     atr |-> [period |-> 1, resample_interval |-> 1, multiplier |-> Num(1, 1)],
     trend_period |-> 1, volatility_multiplier |-> Num(1, 1),
     min_volatility |-> NoThreshold]

\* ModifiedATR(period, resample_interval, multiplier),
\* TrendDetector(atr, trend_period, volatility_multiplier),
\* MarketAnalyzer(detector, min_volatility)
AtrAnalyzer(period, resample_interval, multiplier, trend_period, volatility_multiplier, min_volatility) ==
    [kind |-> "a", period |-> 1,
     atr |-> [period |-> period, resample_interval |-> resample_interval,
              multiplier |-> multiplier],
     trend_period |-> trend_period, volatility_multiplier |-> volatility_multiplier,
     min_volatility |-> min_volatility]

\* the analyzer of market_a.main, and analyzers with a short ATR period
Analyzers ==
    {MovingAverageAnalyzer(p) : p \in 1..MaxPeriod}
        \cup {AtrAnalyzer(14, 240, Num(2, 1), 10, Num(3, 2), Threshold(1, 1000)),
              AtrAnalyzer(2, 240, Num(1, 10), 5, Num(1, 1), NoThreshold),
              AtrAnalyzer(2, 240, Num(1, 10), 5, Num(1, 1), Threshold(2, 1))}

NoAnalysis == [done |-> FALSE, result |-> AnalysisResult(<<>>)]

MarketIdle ==
    /\ m_analyzer = MovingAverageAnalyzer(1)
    /\ m_market = <<>>
    /\ m_out = NoAnalysis

RaiseResp == [kind |-> "raise", list |-> <<>>]

IdleScan ==
    [pc |-> "idle", symbols |-> <<>>, idx |-> 0, market_data |-> EmptyDir,
     calls |-> <<>>, raised |-> FALSE]

NoFetchCall ==
    [op |-> "none", symbol |-> <<>>, use_cache |-> TRUE, resp |-> RaiseResp,
     write |-> "ok", before |-> EmptyDir, now |-> 0, ret |-> <<>>,
     raised |-> FALSE, requested |-> FALSE]

\* a new BybitDataFetcher on an empty cache directory
FetchIdle ==
    /\ f_clock = 0
    /\ f_cfg = [interval |-> StrInterval(<<"D">>), days |-> 1]
    /\ f_dir = EmptyDir
    /\ f_scan = IdleScan
    /\ f_last = NoFetchCall

InitPoints ==
    /\ cp_days \in DaysSample
    /\ cp_interval \in DocumentedIntervals \cup UndocumentedIntervals
    /\ cp_out = NoOut
    /\ StoreIdle
    /\ FetchIdle
    /\ MarketIdle
    /\ OthersIdle

CallPoints ==
    /\ ~cp_out.done
    /\ LET r == calculate_required_points(cp_days, cp_interval) IN
       cp_out' = [done |-> TRUE, raised |-> r.raised, val |-> r.val]
    /\ UNCHANGED <<cp_days, cp_interval>>
    /\ UNCHANGED exceptPoints

NextPoints == CallPoints

SpecPoints == InitPoints /\ [][NextPoints]_vars

(***************************************************************************)
(* Specification of the analysis storage: save_analysis and                *)
(* load_latest_analysis called in any order while the wall clock runs.     *)
(* A call of save_analysis takes one tick, so two calls never read the     *)
(* same instant from datetime.now().                                       *)
(***************************************************************************)
\* (last_price, sma) pairs: distances 50, 100, 75 and 50 per cent
PricePairs == {<<1, 2>>, <<4, 2>>, <<1, 4>>, <<6, 4>>}

AssetChoices == {-1, 0, 1} \X PricePairs

AssetsOfLen(n) ==
    {[i \in 1..n |->
        [symbol |-> Sym(i), current_trend |-> c[i][1],
         last_price |-> c[i][2][1], sma |-> c[i][2][2]]] : c \in [1..n -> AssetChoices]}

AllAssets == UNION {AssetsOfLen(n) : n \in 0..MaxAssets}

\* market_stats as analyze_market reports them for these assets
StatsFor(assets) ==
    LET up == Cardinality({i \in 1..Len(assets) : assets[i].current_trend = 1})
        down == Cardinality({i \in 1..Len(assets) : assets[i].current_trend = -1})
        total == Len(assets)
    IN [total_assets |-> total,
        uptrend_percentage |-> Percentage(up, total),
        downtrend_percentage |-> Percentage(down, total),
        neutral_percentage |-> Percentage(total - up - down, total)]

\* the intervals snapshots are saved and loaded for: '1' is a prefix of '15'
StoreIntervals == {StrInterval(<<"D">>), StrInterval(<<"1">>), StrInterval(<<"1", "5">>)}

\* two analyses with different results
StoreAssets ==
    {<<[symbol |-> Sym(1), current_trend |-> 1, last_price |-> 4, sma |-> 2],
       [symbol |-> Sym(2), current_trend |-> -1, last_price |-> 1, sma |-> 4]>>,
     <<[symbol |-> Sym(1), current_trend |-> 0, last_price |-> 4, sma |-> 2]>>}

Save(interval, assets, top_n) ==
    /\ st_clock < MaxTicks
    /\ st_files' = save_analysis(st_files, st_clock, StatsFor(assets), assets, interval, top_n)
    /\ st_saved' = Append(st_saved,
                          [interval |-> interval,
                           name |-> SnapshotFileName(interval, st_clock),
                           content |-> AnalysisData(st_clock, StatsFor(assets), assets,
                                                    interval, top_n)])
    /\ st_last' = [op |-> "save", interval |-> interval, assets |-> assets,
                   top_n |-> top_n, name |-> SnapshotFileName(interval, st_clock),
                   readOk |-> TRUE, result |-> EmptyResult]
    /\ st_clock' = st_clock + 1
    /\ UNCHANGED exceptStore

SaveAnalysis ==
    \E interval \in StoreIntervals, assets \in StoreAssets : Save(interval, assets, 1)

\* one save_analysis call on the empty directory, for every mapping and top_n
SaveTop ==
    /\ st_saved = <<>>
    /\ \E assets \in AllAssets, top_n \in 0..(MaxAssets + 1) :
          Save(StrInterval(<<"D">>), assets, top_n)

LoadLatestAnalysis ==
    /\ \E interval \in StoreIntervals, readOk \in BOOLEAN :
          \E f \in IF AnalysisFiles(st_files, interval) = {} THEN {<<>>}
                   ELSE LatestFiles(st_files, interval) :
              st_last' = [op |-> "load", interval |-> interval, assets |-> <<>>,
                          top_n |-> 0, name |-> f, readOk |-> readOk,
                          result |-> load_latest_analysis(st_files, interval, f, readOk)]
    /\ UNCHANGED <<st_clock, st_files, st_saved>>
    /\ UNCHANGED exceptStore

StoreTick ==
    /\ st_clock < MaxTicks
    /\ st_clock' = st_clock + 1
    /\ UNCHANGED <<st_files, st_saved, st_last>>
    /\ UNCHANGED exceptStore

InitStore == PointsIdle /\ StoreIdle /\ FetchIdle /\ MarketIdle /\ OthersIdle

NextStore == StoreTick \/ SaveAnalysis \/ LoadLatestAnalysis

SpecStore == InitStore /\ [][NextStore]_vars

NextTop == SaveTop

SpecTop == InitStore /\ [][NextTop]_vars

(***************************************************************************)
(* The fetcher on its own: get_kline_data and get_all_symbols called       *)
(* directly, as analyze_asset and test.py do, while the hours pass.  The   *)
(* interval and the days of a run are fixed when it starts.                *)
(***************************************************************************)
BTCUSDT == <<"B", "T", "C", "U", "S", "D", "T">>

ETHUSDT == <<"E", "T", "H", "U", "S", "D", "T">>

BTCUSD == <<"B", "T", "C", "U", "S", "D">>

\* the symbol of the direct calls; a scan fetches several
KlineSymbols == {BTCUSDT}

\* two USDT contracts and a contract settled in another currency
Instruments == {BTCUSDT, ETHUSDT, BTCUSD}

KlineIntervals ==
    {StrInterval(<<"D">>), StrInterval(<<"7", "2", "0">>), NumInterval(720),
     StrInterval(<<"x">>)}

\* the days that ask for no row, for one and for more than a response has
KlineDays == {0, 1, MaxRows + 1}

KlineConfigs == [interval : KlineIntervals, days : KlineDays]

\* the rows of a kline response, by their timestamps: newest first
Descending(n) == [i \in 1..n |-> n + 1 - i]

KlineResponses ==
    {[kind |-> k, list |-> <<>>] : k \in {"raise", "nolist", "badrows"}}
    \cup {[kind |-> "rows", list |-> Descending(n)] : n \in 1..MaxRows}

\* the sequences of distinct instruments
InstrumentLists ==
    {l \in UNION {[1..n -> Instruments] : n \in 0..MaxInstruments} :
        \A i, j \in 1..Len(l) : i # j => l[i] # l[j]}

InstrumentResponses ==
    {[kind |-> k, list |-> <<>>] : k \in {"raise", "badshape"}}
    \cup {[kind |-> "list", list |-> l] : l \in InstrumentLists}

\* one hour passes
FetchTick ==
    /\ f_clock < MaxClock
    /\ f_clock' = f_clock + 1
    /\ UNCHANGED <<f_cfg, f_dir, f_scan, f_last>>
    /\ UNCHANGED exceptFetch

\* a call of get_kline_data(symbol, interval, days, use_cache)
GetKlineData ==
    \E symbol \in KlineSymbols, use_cache \in BOOLEAN,
       resp \in KlineResponses, write \in WriteOutcomes :
        LET out == get_kline_data(f_dir, f_clock, symbol, f_cfg.interval,
                                  f_cfg.days, use_cache, resp, write)
        IN /\ out.requested \/ resp = RaiseResp
           /\ (out.requested /\ use_cache /\ resp.kind = "rows") \/ write = "ok"
           /\ f_dir' = out.dir
           /\ f_last' = [op |-> "kline", symbol |-> symbol, use_cache |-> use_cache,
                         resp |-> resp, write |-> write, before |-> f_dir,
                         now |-> f_clock, ret |-> out.ret, raised |-> out.exc,
                         requested |-> out.requested]
           /\ UNCHANGED <<f_clock, f_cfg, f_scan>>
           /\ UNCHANGED exceptFetch

\* a call of get_all_symbols()
GetAllSymbols ==
    \E resp \in InstrumentResponses, write \in WriteOutcomes :
        LET out == get_all_symbols(f_dir, f_clock, resp, write)
        IN /\ out.requested \/ resp = RaiseResp
           /\ (out.requested /\ resp.kind = "list") \/ write = "ok"
           /\ f_dir' = out.dir
           /\ f_last' = [op |-> "symbols", symbol |-> <<>>, use_cache |-> TRUE,
                         resp |-> resp, write |-> write, before |-> f_dir,
                         now |-> f_clock, ret |-> out.ret, raised |-> out.exc,
                         requested |-> out.requested]
           /\ UNCHANGED <<f_clock, f_cfg, f_scan>>
           /\ UNCHANGED exceptFetch

InitKline ==
    /\ PointsIdle /\ StoreIdle /\ MarketIdle /\ OthersIdle
    /\ f_clock = 0
    /\ f_cfg \in KlineConfigs
    /\ f_dir = EmptyDir
    /\ f_scan = IdleScan
    /\ f_last = NoFetchCall

NextKline == GetKlineData \/ FetchTick

SpecKline == InitKline /\ [][NextKline]_vars

InitSymbols == PointsIdle /\ StoreIdle /\ FetchIdle /\ MarketIdle /\ OthersIdle

NextSymbols == GetAllSymbols \/ FetchTick

SpecSymbols == InitSymbols /\ [][NextSymbols]_vars

(***************************************************************************)
(* One fetch_all_market_data(interval, days) call.  The cache directory a  *)
(* scan starts on holds what earlier runs left: a symbols file and kline   *)
(* files that are fresh, expired or unreadable.  The scan sleeps 0.1 s     *)
(* per symbol, so the hour does not change while it runs.                   *)
(***************************************************************************)
ScanSymbols == {BTCUSDT, ETHUSDT}

ScanClock == CacheDurationHours

\* the rows of a cached table: oldest first
Ascending(n) == [i \in 1..n |-> i]

Absent == [present |-> FALSE, file |-> BrokenFile(0)]

Present(file) == [present |-> TRUE, file |-> file]

LeftoverKline ==
    {Absent, Present(BrokenFile(ScanClock))}
        \cup {Present(GoodFile(Ascending(MaxRows), <<>>, m)) : m \in {0, ScanClock}}

LeftoverSymbols ==
    {Absent, Present(BrokenFile(ScanClock)),
     Present(GoodFile(<<>>, <<BTCUSDT, ETHUSDT>>, 0))}
        \cup {Present(GoodFile(<<>>, l, ScanClock)) :
                 l \in {<<>>, <<ETHUSDT>>, <<ETHUSDT, BTCUSDT>>}}

ScanConfigs ==
    {[interval |-> StrInterval(<<"D">>), days |-> 1],
     [interval |-> StrInterval(<<"D">>), days |-> MaxRows + 1],
     [interval |-> NumInterval(720), days |-> 1],
     [interval |-> StrInterval(<<"x">>), days |-> 1]}

\* the directory holding the leftovers that are present
LeftoverDir(interval, sym, btc, eth) ==
    LET at == [p \in {SymbolsPath, get_cache_path(BTCUSDT, interval),
                      get_cache_path(ETHUSDT, interval)} |->
                  IF p = SymbolsPath THEN sym
                  ELSE IF p = get_cache_path(BTCUSDT, interval) THEN btc ELSE eth]
    IN [p \in {q \in DOMAIN at : at[q].present} |-> at[p].file]

KeepAlways(market_data, symbol, df) == PutFile(market_data, symbol, df)

\* `if not df.empty: market_data[symbol] = df`
KeepTable(market_data, symbol, df) ==
    IF df # <<>> THEN PutFile(market_data, symbol, df) ELSE market_data

\* lines 212-217: get_all_symbols, and the return of {} on an empty list
ScanStart ==
    /\ f_scan.pc = "idle"
    /\ \E resp \in InstrumentResponses, write \in WriteOutcomes :
        LET out == get_all_symbols(f_dir, f_clock, resp, write)
        IN /\ out.requested \/ resp = RaiseResp
           /\ (out.requested /\ resp.kind = "list") \/ write = "ok"
           /\ f_dir' = out.dir
           /\ f_scan' = [f_scan EXCEPT
                  !.pc = IF out.exc \/ out.ret = <<>> THEN "done" ELSE "loop",
                  !.raised = out.exc,
                  !.symbols = out.ret,
                  !.idx = 1]
    /\ UNCHANGED <<f_clock, f_cfg, f_last>>
    /\ UNCHANGED exceptFetch

\* lines 220-230: one turn of the loop, and the return after the last one;
\* an exception leaving get_kline_data leaves the scan
ScanStep ==
    /\ f_scan.pc = "loop"
    /\ \E resp \in KlineResponses, write \in WriteOutcomes :
        LET symbol == f_scan.symbols[f_scan.idx]
            out == get_kline_data(f_dir, f_clock, symbol, f_cfg.interval,
                                  f_cfg.days, TRUE, resp, write)
            call == [symbol |-> symbol, kind |-> resp.kind,
                     requested |-> out.requested, ret |-> out.ret]
        IN /\ out.requested \/ resp = RaiseResp
           /\ (out.requested /\ resp.kind = "rows") \/ write = "ok"
           /\ f_dir' = out.dir
           /\ f_scan' = [f_scan EXCEPT
                  !.pc = IF out.exc \/ f_scan.idx = Len(f_scan.symbols)
                         THEN "done" ELSE "loop",
                  !.raised = out.exc,
                  !.calls = Append(f_scan.calls, call),
                  !.market_data = IF out.exc THEN f_scan.market_data
                                  ELSE KeepTable(f_scan.market_data, symbol, out.ret),
                  !.idx = f_scan.idx + 1]
    /\ UNCHANGED <<f_clock, f_cfg, f_last>>
    /\ UNCHANGED exceptFetch

InitScan ==
    /\ PointsIdle /\ StoreIdle /\ MarketIdle /\ OthersIdle
    /\ f_clock = ScanClock
    /\ f_cfg \in ScanConfigs
    /\ \E sym \in LeftoverSymbols, btc \in LeftoverKline, eth \in LeftoverKline :
           f_dir = LeftoverDir(f_cfg.interval, sym, btc, eth)
    /\ f_scan = IdleScan
    /\ f_last = NoFetchCall

NextScan == ScanStart \/ ScanStep

SpecScan == InitScan /\ [][NextScan]_vars

\* market_b: analyzer.analyze_market(market_data)
AnalyzeMarketB ==
    /\ m_analyzer.kind = "b"
    /\ m_out' = [done |-> TRUE,
                 result |-> market_b_analyze_market(m_market, m_analyzer.period)]
    /\ UNCHANGED <<m_analyzer, m_market>>
    /\ UNCHANGED exceptMarket

\* market_a: analyzer.analyze_market(market_data)
AnalyzeMarketA ==
    /\ m_analyzer.kind = "a"
    /\ m_out' = [done |-> TRUE,
                 result |-> market_a_analyze_market(m_market, m_analyzer,
                                                    m_analyzer.min_volatility)]
    /\ UNCHANGED <<m_analyzer, m_market>>
    /\ UNCHANGED exceptMarket

InitMarket ==
    /\ PointsIdle /\ StoreIdle /\ FetchIdle /\ OthersIdle
    /\ m_analyzer \in Analyzers
    /\ m_market \in Markets
    /\ m_out = NoAnalysis

NextMarket == AnalyzeMarketB \/ AnalyzeMarketA

SpecMarket == InitMarket /\ [][NextMarket]_vars

(***************************************************************************)
(* The Moving-Average trend detector called on its own, on every short     *)
(* close series and on the 110 rows a run with SMAIndicator(period=100)    *)
(* classifies.                                                             *)
(***************************************************************************)
\* the rows of a short close series
MaxSeries == 4

\* the closes of a short close series: 1..MaxClose
MaxClose == 3

\* `SMAIndicator(period=100)`
SmaPeriod == 100

CloseSeries == UNION {[1..n -> 1..MaxClose] : n \in 0..MaxSeries}

\* the table of a close series, one bar every BarMinutes
SeriesTable(closes) ==
    [i \in 1..Len(closes) |->
        [timestamp |-> (i - 1) * BarMinutes, high |-> closes[i],
         low |-> closes[i], close |-> closes[i]]]

\* the prices of a table in the opposite order, under the same timestamps
Mirror(df) ==
    [i \in 1..Len(df) |->
        [timestamp |-> df[i].timestamp, high |-> df[Len(df) + 1 - i].high,
         low |-> df[Len(df) + 1 - i].low, close |-> df[Len(df) + 1 - i].close]]

LongRising == Bars("rising", SmaPeriod + 10, 0)

TrendCalls ==
    {[op |-> "detect_trend", df |-> SeriesTable(c), period |-> p] :
        c \in CloseSeries, p \in 1..MaxPeriod}
    \cup {[op |-> "detect_trend", df |-> t, period |-> SmaPeriod] :
             t \in {LongRising, Mirror(LongRising)}}

\* market_b: trend_detector.detect_trend(df)
DetectTrendB ==
    /\ u_args.op = "detect_trend"
    /\ ~u_out.done
    /\ u_out' = [done |-> TRUE,
                 val |-> market_b_detect_trend(u_args.df, u_args.period)]
    /\ UNCHANGED u_args
    /\ UNCHANGED exceptCall

InitTrend ==
    /\ PointsIdle /\ StoreIdle /\ FetchIdle /\ MarketIdle
    /\ ProgressIdle /\ MainIdle
    /\ u_args \in TrendCalls
    /\ u_out = NoRet

NextTrend == DetectTrendB

SpecTrend == InitTrend /\ [][NextTrend]_vars

(***************************************************************************)
(* analyze_asset of either analyzer called on its own, on tables around    *)
(* the 24 rows of price_change_24h.  A table is not empty: iloc[-1] of an  *)
(* empty one raises before anything is returned.                           *)
(***************************************************************************)
AssetTables ==
    {Bars(shape, len, 0) :
        shape \in {"rising", "falling", "flat", "zigzag"},
        len \in {DayRows - 1, DayRows, DayRows + 1, DayRows + 2}}

AssetCalls ==
    {[op |-> "analyze_asset", analyzer |-> a, df |-> t] :
        a \in Analyzers, t \in AssetTables}

\* market_b: analyzer.analyze_asset(df)
AnalyzeAssetB ==
    /\ u_args.op = "analyze_asset"
    /\ u_args.analyzer.kind = "b"
    /\ ~u_out.done
    /\ u_out' = [done |-> TRUE,
                 val |-> market_b_analyze_asset(u_args.df, u_args.analyzer.period)]
    /\ UNCHANGED u_args
    /\ UNCHANGED exceptCall

\* market_a: analyzer.analyze_asset(df)
AnalyzeAssetA ==
    /\ u_args.op = "analyze_asset"
    /\ u_args.analyzer.kind = "a"
    /\ ~u_out.done
    /\ u_out' = [done |-> TRUE,
                 val |-> market_a_analyze_asset(u_args.df, u_args.analyzer)]
    /\ UNCHANGED u_args
    /\ UNCHANGED exceptCall

InitAsset ==
    /\ PointsIdle /\ StoreIdle /\ FetchIdle /\ MarketIdle
    /\ ProgressIdle /\ MainIdle
    /\ u_args \in AssetCalls
    /\ u_out = NoRet

NextAsset == AnalyzeAssetB \/ AnalyzeAssetA

SpecAsset == InitAsset /\ [][NextAsset]_vars

(***************************************************************************)
(* loading_bar.py.  pb is the tqdm bar of the call in progress: its total, *)
(* the count n its update() calls have added up, the bytes of the body not *)
(* yet read (left) and the turns of the loop taken (i).  A response either *)
(* declares its body's size in a content-length header or, as a chunked    *)
(* response does, carries no such header.                                  *)
(***************************************************************************)
\* `response.iter_content(chunk_size=1024)`
ChunkSize == 1024

\* the chunks of the longest body
MaxChunks == 4

\* manual_progress: `tqdm(total=100, ...)`
ManualTotal == 100

\* manual_progress: `for i in range(10)`
ManualSteps == 10

\* manual_progress: `pbar.update(10)`
ManualUpdate == 10

BodySizes ==
    {k * ChunkSize + r : k \in 0..MaxChunks, r \in {0, 1, ChunkSize - 1}}

NoHeader == [present |-> FALSE, value |-> 0]

Responses ==
    {[content_length |-> NoHeader, body |-> b] : b \in BodySizes}
    \cup {[content_length |-> [present |-> TRUE, value |-> b], body |-> b] :
             b \in BodySizes}

\* `int(response.headers.get('content-length', 0))`
TotalSize(response) ==
    IF response.content_length.present THEN response.content_length.value ELSE 0

\* download_with_progress up to the first turn of its loop
DownloadStart ==
    /\ pb.pc = "idle"
    /\ \E response \in Responses :
           pb' = [op |-> "download", pc |-> "loop", total |-> TotalSize(response),
                  n |-> 0, left |-> response.body, i |-> 0]
    /\ UNCHANGED exceptProgress

\* one turn of `for data in response.iter_content(chunk_size=1024)`
DownloadChunk ==
    /\ pb.op = "download" /\ pb.pc = "loop"
    /\ pb.left > 0
    /\ LET size == Min(pb.left, ChunkSize)
       IN pb' = [pb EXCEPT !.n = @ + size, !.left = @ - size, !.i = @ + 1]
    /\ UNCHANGED exceptProgress

\* the body is read: the with block closes the file and the bar
DownloadEnd ==
    /\ pb.op = "download" /\ pb.pc = "loop"
    /\ pb.left = 0
    /\ pb' = [pb EXCEPT !.pc = "done"]
    /\ UNCHANGED exceptProgress

\* manual_progress up to the first turn of its loop
ManualStart ==
    /\ pb.pc = "idle"
    /\ pb' = [op |-> "manual", pc |-> "loop", total |-> ManualTotal, n |-> 0,
              left |-> 0, i |-> 0]
    /\ UNCHANGED exceptProgress

\* one turn of `for i in range(10)`
ManualStep ==
    /\ pb.op = "manual" /\ pb.pc = "loop"
    /\ pb.i < ManualSteps
    /\ pb' = [pb EXCEPT !.n = @ + ManualUpdate, !.i = @ + 1]
    /\ UNCHANGED exceptProgress

ManualEnd ==
    /\ pb.op = "manual" /\ pb.pc = "loop"
    /\ pb.i = ManualSteps
    /\ pb' = [pb EXCEPT !.pc = "done"]
    /\ UNCHANGED exceptProgress

InitProgress ==
    /\ PointsIdle /\ StoreIdle /\ FetchIdle /\ MarketIdle
    /\ CallIdle /\ MainIdle
    /\ pb = NoProgress

NextProgress ==
    \/ DownloadStart \/ DownloadChunk \/ DownloadEnd
    \/ ManualStart \/ ManualStep \/ ManualEnd

SpecProgress == InitProgress /\ [][NextProgress]_vars

(***************************************************************************)
(* _is_cache_valid called on its own while the hours pass, on a cache      *)
(* directory an earlier run left at hour 0: each of the symbols file and   *)
(* the two kline files is missing, whole or unreadable.                    *)
(***************************************************************************)
AgingFiles ==
    {Absent, Present(BrokenFile(0)),
     Present(GoodFile(Ascending(1), <<BTCUSDT>>, 0))}

CachePaths(interval) ==
    {SymbolsPath, get_cache_path(BTCUSDT, interval), get_cache_path(ETHUSDT, interval)}

\* a call of _is_cache_valid(cache_path)
IsCacheValid ==
    \E path \in CachePaths(f_cfg.interval) :
        /\ f_last' = [NoFetchCall EXCEPT
               !.op = "valid", !.symbol = path, !.before = f_dir, !.now = f_clock,
               !.ret = is_cache_valid(f_dir, path, f_clock)]
        /\ UNCHANGED <<f_clock, f_cfg, f_dir, f_scan>>
        /\ UNCHANGED exceptFetch

InitValid ==
    /\ PointsIdle /\ StoreIdle /\ MarketIdle /\ OthersIdle
    /\ f_clock = 0
    /\ f_cfg = [interval |-> StrInterval(<<"D">>), days |-> 1]
    /\ \E sym \in AgingFiles, btc \in AgingFiles, eth \in AgingFiles :
           f_dir = LeftoverDir(f_cfg.interval, sym, btc, eth)
    /\ f_scan = IdleScan
    /\ f_last = NoFetchCall

NextValid == IsCacheValid \/ FetchTick

SpecValid == InitValid /\ [][NextValid]_vars

(***************************************************************************)
(* _get_cache_path called on its own, for every instrument and every       *)
(* documented interval, the minute intervals as text and as numbers.       *)
(***************************************************************************)
PathCalls ==
    {[op |-> "get_cache_path", symbol |-> s, interval |-> i] :
        s \in Instruments, i \in DocumentedIntervals}

\* a call of _get_cache_path(symbol, interval)
GetCachePath ==
    /\ u_args.op = "get_cache_path"
    /\ ~u_out.done
    /\ u_out' = [done |-> TRUE,
                 val |-> get_cache_path(u_args.symbol, u_args.interval)]
    /\ UNCHANGED u_args
    /\ UNCHANGED exceptCall

InitPath ==
    /\ PointsIdle /\ StoreIdle /\ FetchIdle /\ MarketIdle
    /\ ProgressIdle /\ MainIdle
    /\ u_args \in PathCalls
    /\ u_out = NoRet

NextPath == GetCachePath

SpecPath == InitPath /\ [][NextPath]_vars

(***************************************************************************)
(* ModifiedATR.calculate called on its own, on hourly tables of a few      *)
(* 240-minute buckets that start on a bucket's edge or one bar after it.   *)
(***************************************************************************)
\* the rows of a table calculate is called on
MaxBars == 9

CalculateCalls ==
    {[op |-> "calculate", atr |-> a.atr, df |-> Bars(shape, len, start)] :
        a \in {b \in Analyzers : b.kind = "a"},
        shape \in {"rising", "falling", "flat", "zigzag"},
        len \in 1..MaxBars, start \in {0, BarMinutes}}

\* market_a: volatility_indicator.calculate(df)
Calculate ==
    /\ u_args.op = "calculate"
    /\ ~u_out.done
    /\ u_out' = [done |-> TRUE, val |-> calculate(u_args.df, u_args.atr)]
    /\ UNCHANGED u_args
    /\ UNCHANGED exceptCall

InitCalculate ==
    /\ PointsIdle /\ StoreIdle /\ FetchIdle /\ MarketIdle
    /\ ProgressIdle /\ MainIdle
    /\ u_args \in CalculateCalls
    /\ u_out = NoRet

NextCalculate == Calculate

SpecCalculate == InitCalculate /\ [][NextCalculate]_vars

(***************************************************************************)
(* main.main from its save_analysis call on (lines 63-87), in a snapshot   *)
(* directory where earlier runs may have saved.  mn holds the position of  *)
(* the run, its locals latest_analysis and previous_analysis, whether the  *)
(* comparison block was entered and whether the run raised.  A load whose  *)
(* open() or json.load raises returns {}; each load may fail on its own.   *)
(***************************************************************************)
\* `TOP_N_ASSETS = 20`
TopNAssets == 20

\* `INTERVAL = 'D'`
MainInterval == StrInterval(<<"D">>)

MainStart ==
    [pc |-> "start", latest |-> EmptyResult, previous |-> EmptyResult,
     compared |-> FALSE, raised |-> FALSE]

\* a snapshot saved by a run before this one
EarlierSave ==
    /\ mn.pc = "start"
    /\ SaveAnalysis

\* lines 64-69: storage.save_analysis(...)
MainSave ==
    /\ mn.pc = "start"
    /\ st_clock < MaxTicks
    /\ \E assets \in StoreAssets :
          /\ st_files' = save_analysis(st_files, st_clock, StatsFor(assets), assets,
                                       MainInterval, TopNAssets)
          /\ st_saved' = Append(st_saved,
                                [interval |-> MainInterval,
                                 name |-> SnapshotFileName(MainInterval, st_clock),
                                 content |-> AnalysisData(st_clock, StatsFor(assets),
                                                          assets, MainInterval,
                                                          TopNAssets)])
          /\ st_last' = [op |-> "save", interval |-> MainInterval, assets |-> assets,
                         top_n |-> TopNAssets,
                         name |-> SnapshotFileName(MainInterval, st_clock),
                         readOk |-> TRUE, result |-> EmptyResult]
    /\ st_clock' = st_clock + 1
    /\ mn' = [mn EXCEPT !.pc = "saved"]
    /\ UNCHANGED exceptMain

\* lines 72-74: latest_analysis = storage.load_latest_analysis(INTERVAL)
MainLoadLatest ==
    /\ mn.pc = "saved"
    /\ \E readOk \in BOOLEAN, f \in LatestFiles(st_files, MainInterval) :
          LET result == load_latest_analysis(st_files, MainInterval, f, readOk)
          IN /\ mn' = [mn EXCEPT !.pc = "loaded", !.latest = result]
             /\ st_last' = [op |-> "load", interval |-> MainInterval, assets |-> <<>>,
                            top_n |-> 0, name |-> f, readOk |-> readOk,
                            result |-> result]
    /\ UNCHANGED <<st_clock, st_files, st_saved>>
    /\ UNCHANGED exceptMain

\* `previous_analysis['timestamp'] != latest_analysis['timestamp']`, read
\* once previous_analysis is not empty: {}['timestamp'] raises KeyError
TimestampsDiffer(previous, latest) ==
    IF latest.empty THEN [raised |-> TRUE, val |-> FALSE]
    ELSE [raised |-> FALSE, val |-> previous.data[1].timestamp # latest.data[1].timestamp]

\* lines 77-87: the second load and the comparison
MainCompare ==
    /\ mn.pc = "loaded"
    /\ \E readOk \in BOOLEAN, f \in LatestFiles(st_files, MainInterval) :
          LET result == load_latest_analysis(st_files, MainInterval, f, readOk)
              differ == TimestampsDiffer(result, mn.latest)
          IN /\ mn' = [mn EXCEPT
                    !.pc = "done", !.previous = result,
                    !.raised = ~result.empty /\ differ.raised,
                    !.compared = ~result.empty /\ ~differ.raised /\ differ.val]
             /\ st_last' = [op |-> "load", interval |-> MainInterval, assets |-> <<>>,
                            top_n |-> 0, name |-> f, readOk |-> readOk,
                            result |-> result]
    /\ UNCHANGED <<st_clock, st_files, st_saved>>
    /\ UNCHANGED exceptMain

InitMain ==
    /\ PointsIdle /\ StoreIdle /\ FetchIdle /\ MarketIdle
    /\ CallIdle /\ ProgressIdle
    /\ mn = MainStart

NextMain == EarlierSave \/ StoreTick \/ MainSave \/ MainLoadLatest \/ MainCompare

SpecMain == InitMain /\ [][NextMain]_vars

(***************************************************************************)
(* C6.  calculate_required_points(days, interval) returns min(1000, p)     *)
(* with p = days for 'D', days // 7 + 1 for 'W', days // 30 + 1 for 'M'    *)
(* and (days * 1440) // interval_minutes for a minute interval given as    *)
(* text or as a number; the result never exceeds 1000.                     *)
(***************************************************************************)
\* the minutes a documented minute interval stands for, read off the
\* docstring's table and not through int()
DocMinutes(interval) ==
    IF interval.isStr
    THEN CHOOSE m \in MinuteValues : NatToStr(m) = interval.s
    ELSE interval.n

ExpectedPoints(days, interval) ==
    IF interval = StrInterval(<<"D">>) THEN days
    ELSE IF interval = StrInterval(<<"W">>) THEN days \div 7 + 1
    ELSE IF interval = StrInterval(<<"M">>) THEN days \div 30 + 1
    ELSE (days * 1440) \div DocMinutes(interval)

C6_RequiredPoints ==
    (cp_out.done /\ cp_interval \in DocumentedIntervals) =>
        /\ ~cp_out.raised
        /\ cp_out.val = Min(1000, ExpectedPoints(cp_days, cp_interval))
        /\ cp_out.val <= 1000

\* a weekly request that is clamped, and one below the clamp
C6_Witness ==
    /\ cp_out.done
    /\ cp_interval = StrInterval(<<"W">>)
    /\ cp_days = 7000
    /\ cp_out.val = 1000

(***************************************************************************)
(* C3.  Every save_analysis call creates a new, distinct snapshot file:    *)
(* the number of snapshot files equals the number of calls, and the file   *)
(* written by an earlier call still holds what that call wrote.            *)
(***************************************************************************)
C3_EverySaveNewFile ==
    /\ Cardinality(DOMAIN st_files) = Len(st_saved)
    /\ \A i \in 1..Len(st_saved) :
          /\ st_saved[i].name \in DOMAIN st_files
          /\ st_files[st_saved[i].name].content = st_saved[i].content

(***************************************************************************)
(* C4.  load_latest_analysis(interval) returns the record written by the   *)
(* most recent save_analysis call made for that interval (its              *)
(* market_summary and top_trending_assets as computed at save time), never *)
(* a record saved under another interval, and an empty result when no      *)
(* snapshot exists for the interval.  The read of the chosen file is taken *)
(* to succeed; a failed read is answered with the empty result.            *)
(***************************************************************************)
SavesFor(interval) == {i \in 1..Len(st_saved) : st_saved[i].interval = interval}

LastSaveFor(interval) ==
    CHOOSE i \in SavesFor(interval) : \A j \in SavesFor(interval) : j <= i

C4_LoadLatestRoundTrip ==
    st_last.op = "load" =>
        /\ SavesFor(st_last.interval) = {} => st_last.result = EmptyResult
        /\ (SavesFor(st_last.interval) # {} /\ st_last.readOk) =>
              /\ ~st_last.result.empty
              /\ st_last.result.data
                    = <<st_saved[LastSaveFor(st_last.interval)].content>>
        /\ ~st_last.result.empty =>
              st_last.result.data[1].interval = st_last.interval
        /\ ~st_last.readOk => st_last.result = EmptyResult

\* a load of '1' after two saves of '1' and a later save of '15'
C4_Witness ==
    /\ st_last.op = "load"
    /\ st_last.interval = StrInterval(<<"1">>)
    /\ ~st_last.result.empty
    /\ Cardinality(SavesFor(StrInterval(<<"1">>))) = 2
    /\ Len(st_saved) = 3
    /\ st_saved[3].interval = StrInterval(<<"1", "5">>)
    /\ st_saved[1].content.market_summary # st_saved[2].content.market_summary

(***************************************************************************)
(* C5.  The top_trending_assets list persisted by save_analysis holds only *)
(* assets whose current_trend is +1 or -1, is ordered by descending        *)
(* distance |price - sma| / sma * 100, and consists of exactly the         *)
(* min(top_n, number of clear-trend assets) largest-distance entries.      *)
(***************************************************************************)
ClearAssets(assets) == {i \in 1..Len(assets) : assets[i].current_trend \in {-1, 1}}

\* |p1 - s1| / s1 < |p2 - s2| / s2, on the assets themselves
CloserToSma(a, b) ==
    Abs(a.last_price - a.sma) * b.sma < Abs(b.last_price - b.sma) * a.sma

SavedList == st_files[st_last.name].content.top_trending_assets

C5_TopTrending ==
    st_last.op = "save" =>
        LET list == SavedList
            assets == st_last.assets
            clear == ClearAssets(assets)
            src(k) == CHOOSE i \in 1..Len(assets) : assets[i].symbol = list[k].symbol
        IN /\ Len(list) = Min(st_last.top_n, Cardinality(clear))
           /\ \A k \in 1..Len(list) :
                 /\ \E i \in clear : assets[i].symbol = list[k].symbol
                 /\ list[k].price = assets[src(k)].last_price
                 /\ list[k].sma = assets[src(k)].sma
                 /\ list[k].trend = (IF assets[src(k)].current_trend = 1
                                     THEN "uptrend" ELSE "downtrend")
                 /\ list[k].distance.n * list[k].sma
                       = Abs(list[k].price - list[k].sma) * 100 * list[k].distance.d
           /\ \A k, l \in 1..Len(list) : k # l => list[k].symbol # list[l].symbol
           /\ \A k \in 1..(Len(list) - 1) :
                 ~CloserToSma(assets[src(k)], assets[src(k + 1)])
           /\ \A i \in clear :
                 (\A k \in 1..Len(list) : list[k].symbol # assets[i].symbol) =>
                     \A k \in 1..Len(list) : ~CloserToSma(assets[src(k)], assets[i])

\* three clear-trend assets given in ascending distance, the top two kept
C5_Witness ==
    /\ st_last.op = "save"
    /\ Len(st_last.assets) = 3
    /\ Cardinality(ClearAssets(st_last.assets)) = 3
    /\ st_last.top_n = 2
    /\ CloserToSma(st_last.assets[1], st_last.assets[2])
    /\ CloserToSma(st_last.assets[2], st_last.assets[3])
    /\ Len(SavedList) = 2
    /\ SavedList[1].symbol = Sym(3)
    /\ SavedList[2].symbol = Sym(2)

(***************************************************************************)
(* C2.  get_kline_data never propagates a fetch-level failure: when the    *)
(* kline request raises, when its response cannot be parsed, or when the   *)
(* interval is one int() rejects, the call returns an empty table and      *)
(* does not raise, with and without use_cache.                             *)
(***************************************************************************)
C2_NeverPropagates ==
    f_last.op = "kline" =>
        /\ ~f_last.raised
        /\ (f_last.requested /\ f_last.resp.kind \in {"raise", "badrows"})
               => f_last.ret = <<>>
        /\ f_cfg.interval = StrInterval(<<"x">>) => f_last.ret = <<>>

\* the request raised while an expired cache file was on disk
C2_Witness ==
    /\ f_last.op = "kline"
    /\ f_last.use_cache
    /\ f_last.requested
    /\ f_last.resp.kind = "raise"
    /\ get_cache_path(f_last.symbol, f_cfg.interval) \in DOMAIN f_last.before
    /\ f_last.ret = <<>>
    /\ ~f_last.raised

(***************************************************************************)
(* C7.  Cache-hit rule of get_kline_data, for the documented intervals:    *)
(* with use_cache, a cache file younger than the cache duration, readable  *)
(* and holding at least required-points rows makes the call return the     *)
(* last required-points rows of it, issue no request and leave the cache   *)
(* directory as it was; a missing, stale, unreadable or too short cache    *)
(* file makes the call issue a kline request.                              *)
(***************************************************************************)
LastRows(rows, n) == [i \in 1..n |-> rows[Len(rows) - n + i]]

C7_CacheHitRule ==
    (f_last.op = "kline" /\ f_last.use_cache /\ f_cfg.interval \in DocumentedIntervals) =>
        LET path == get_cache_path(f_last.symbol, f_cfg.interval)
            required == Min(1000, ExpectedPoints(f_cfg.days, f_cfg.interval))
            usable ==
                /\ path \in DOMAIN f_last.before
                /\ f_last.now - f_last.before[path].mtime < CacheDurationHours
                /\ ~f_last.before[path].corrupt
                /\ Len(f_last.before[path].rows) >= required
        IN IF usable
           THEN /\ f_last.ret = LastRows(f_last.before[path].rows, required)
                /\ ~f_last.requested
                /\ ~f_last.raised
                /\ f_dir = f_last.before
           ELSE f_last.requested

\* a hit that returned fewer rows than the cache file holds
C7_Witness ==
    /\ f_last.op = "kline"
    /\ f_last.use_cache
    /\ ~f_last.requested
    /\ f_cfg.interval \in DocumentedIntervals
    /\ f_last.ret # <<>>
    /\ LET path == get_cache_path(f_last.symbol, f_cfg.interval)
       IN /\ path \in DOMAIN f_last.before
          /\ Len(f_last.ret) < Len(f_last.before[path].rows)

(***************************************************************************)
(* C8.  get_all_symbols with no usable symbols cache: when the instrument  *)
(* request succeeds, the returned list is the reported symbols containing  *)
(* "USDT", in the reported order, and a symbols file the call wrote whole  *)
(* holds that list; when the request fails, the call returns an empty      *)
(* list and does not raise.                                                *)
(***************************************************************************)
HasUsdt(s) == \E i \in 1..(Len(s) - 3) : SubSeq(s, i, i + 3) = <<"U", "S", "D", "T">>

C8_SymbolsOnMiss ==
    LET before == f_last.before
        miss ==
            \/ SymbolsPath \notin DOMAIN before
            \/ f_last.now - before[SymbolsPath].mtime >= CacheDurationHours
            \/ before[SymbolsPath].corrupt
    IN (f_last.op = "symbols" /\ miss) =>
        /\ ~f_last.raised
        /\ f_last.requested
        /\ f_last.resp.kind = "list" =>
              /\ f_last.ret = SelectSeq(f_last.resp.list, HasUsdt)
              /\ f_last.write = "ok" =>
                    /\ SymbolsPath \in DOMAIN f_dir
                    /\ ~f_dir[SymbolsPath].corrupt
                    /\ f_dir[SymbolsPath].list = f_last.ret
                    /\ f_dir[SymbolsPath].mtime = f_last.now
              /\ f_last.write # "ok" =>
                    \/ f_dir = before
                    \/ f_dir[SymbolsPath].corrupt
        /\ f_last.resp.kind # "list" =>
              /\ f_last.ret = <<>>
              /\ f_dir = before

\* an expired symbols file replaced by the filtered list of a response
C8_Witness ==
    /\ f_last.op = "symbols"
    /\ SymbolsPath \in DOMAIN f_last.before
    /\ f_last.now - f_last.before[SymbolsPath].mtime >= CacheDurationHours
    /\ f_last.resp.kind = "list"
    /\ f_last.resp.list = <<BTCUSD, ETHUSDT, BTCUSDT>>
    /\ f_last.ret = <<ETHUSDT, BTCUSDT>>
    /\ f_dir[SymbolsPath].list = f_last.ret

(***************************************************************************)
(* C1.  fetch_all_market_data never raises and is best-effort: it calls    *)
(* get_kline_data once for every symbol of a non-empty symbol list, in     *)
(* list order, whatever the earlier symbols' outcomes were, and returns a  *)
(* mapping whose keys are the symbols whose table was not empty, each      *)
(* with the table its call returned.                                       *)
(***************************************************************************)
C1_BestEffortScan ==
    LET calls == f_scan.calls
        symbols == f_scan.symbols
    IN /\ ~f_scan.raised
       /\ f_scan.pc = "loop" =>
             /\ Len(calls) = f_scan.idx - 1
             /\ Len(calls) < Len(symbols)
       /\ \A i \in 1..Len(calls) : calls[i].symbol = symbols[i]
       /\ (f_scan.pc = "done" /\ symbols # <<>>) =>
             /\ Len(calls) = Len(symbols)
             /\ DOMAIN f_scan.market_data =
                    {calls[i].symbol : i \in {j \in 1..Len(calls) : calls[j].ret # <<>>}}
             /\ \A i \in 1..Len(calls) :
                    calls[i].ret # <<>> =>
                        f_scan.market_data[calls[i].symbol] = calls[i].ret

\* the first symbol's request raised, the second symbol was fetched and
\* is the only key of the result
C1_Witness ==
    /\ f_scan.pc = "done"
    /\ Len(f_scan.symbols) = 2
    /\ Len(f_scan.calls) = 2
    /\ f_scan.calls[1].kind = "raise"
    /\ f_scan.calls[1].requested
    /\ f_scan.calls[2].requested
    /\ f_scan.calls[2].ret # <<>>
    /\ DOMAIN f_scan.market_data = {f_scan.symbols[2]}

(***************************************************************************)
(* C9.  Market statistics of both analyzers' analyze_market: the assets    *)
(* of assets_analysis fall into the disjoint uptrend, downtrend and        *)
(* neutral counts, which add up to total_assets; with total_assets > 0     *)
(* each percentage is its count / total_assets * 100 and the three sum to  *)
(* 100; with total_assets = 0 the three percentages are 0.                 *)
(***************************************************************************)
WithTrend(assets_analysis, trends) ==
    {i \in 1..Len(assets_analysis) : assets_analysis[i].analysis.current_trend \in trends}

C9_MarketStats ==
    m_out.done =>
        LET stats == m_out.result.market_stats
            total == stats.total_assets
            up == Cardinality(WithTrend(m_out.result.assets_analysis, {1}))
            down == Cardinality(WithTrend(m_out.result.assets_analysis, {-1}))
            neutral == Cardinality(WithTrend(m_out.result.assets_analysis, {0}))
            u == stats.uptrend_percentage
            d == stats.downtrend_percentage
            n == stats.neutral_percentage
        IN /\ up + down + neutral = total
           /\ total > 0 =>
                 /\ u.n * total = up * 100 * u.d
                 /\ d.n * total = down * 100 * d.d
                 /\ n.n * total = neutral * 100 * n.d
                 /\ u.n * d.d * n.d + d.n * u.d * n.d + n.n * u.d * d.d
                        = 100 * u.d * d.d * n.d
           /\ total = 0 =>
                 /\ u.n = 0 /\ d.n = 0 /\ n.n = 0

\* the ATR analyzer found one asset in an uptrend and one in a downtrend
C9_Witness ==
    /\ m_out.done
    /\ m_analyzer.kind = "a"
    /\ m_out.result.market_stats.total_assets = 2
    /\ m_out.result.market_stats.uptrend_percentage = [n |-> 50, d |-> 1]
    /\ m_out.result.market_stats.downtrend_percentage = [n |-> 50, d |-> 1]

(***************************************************************************)
(* C10.  The Moving-Average analyze_market leaves out the symbols with     *)
(* too short a history: a symbol is in assets_analysis exactly when its    *)
(* table has at least `period` rows, with the analysis of its own table;   *)
(* total_assets is the number of symbols in assets_analysis and the        *)
(* uptrend and downtrend percentages count those symbols only.             *)
(***************************************************************************)
C10_InsufficientHistory ==
    (m_out.done /\ m_analyzer.kind = "b") =>
        LET assets_analysis == m_out.result.assets_analysis
            stats == m_out.result.market_stats
            enough == {i \in 1..Len(m_market) : Len(m_market[i].df) >= m_analyzer.period}
            in(trend) == {i \in enough :
                             market_b_analyze_asset(m_market[i].df, m_analyzer.period)
                                 .current_trend = trend}
        IN /\ {assets_analysis[i].symbol : i \in 1..Len(assets_analysis)}
                  = {m_market[i].symbol : i \in enough}
           /\ Len(assets_analysis) = Cardinality(enough)
           /\ \A i \in 1..Len(assets_analysis) : \A j \in 1..Len(m_market) :
                  assets_analysis[i].symbol = m_market[j].symbol =>
                      assets_analysis[i].analysis
                          = market_b_analyze_asset(m_market[j].df, m_analyzer.period)
           /\ stats.total_assets = Cardinality(enough)
           /\ stats.total_assets > 0 =>
                 /\ stats.uptrend_percentage.n * Cardinality(enough)
                        = Cardinality(in(1)) * 100 * stats.uptrend_percentage.d
                 /\ stats.downtrend_percentage.n * Cardinality(enough)
                        = Cardinality(in(-1)) * 100 * stats.downtrend_percentage.d

\* of two symbols, the one with fewer rows than the period is left out and
\* the one with exactly `period` rows is analysed
C10_Witness ==
    /\ m_out.done
    /\ m_analyzer.kind = "b"
    /\ Len(m_market) = 2
    /\ Len(m_market[1].df) < m_analyzer.period
    /\ Len(m_market[2].df) = m_analyzer.period
    /\ Len(m_out.result.assets_analysis) = 1
    /\ m_out.result.assets_analysis[1].symbol = m_market[2].symbol
    /\ m_out.result.market_stats.total_assets = 1

(***************************************************************************)
(* C11.  Moving-Average trend classification, row by row: a row is +1      *)
(* exactly when its close is above the SMA and the SMA is above the        *)
(* previous row's SMA, -1 exactly when its close is below the SMA and the  *)
(* SMA is below the previous row's, and 0 otherwise, which includes the    *)
(* first `period` rows, where the SMA or its difference is undefined.  So  *)
(* 110 strictly rising rows with period 100 end on +1 and 110 strictly     *)
(* falling rows on -1.  The SMA of a row is compared here through the sum  *)
(* of the `period` closes that end on the row.                             *)
(***************************************************************************)
RECURSIVE CloseSum(_, _, _)
CloseSum(df, from, to) ==
    IF from > to THEN 0
    ELSE IF from = to THEN df[from].close
    ELSE LET mid == (from + to) \div 2
         IN CloseSum(df, from, mid) + CloseSum(df, mid + 1, to)

ExpectedTrend(df, period, i) ==
    IF i <= period THEN 0
    ELSE LET here == CloseSum(df, i - period + 1, i)
             before == CloseSum(df, i - period, i - 1)
         IN IF df[i].close * period > here /\ here > before THEN 1
            ELSE IF df[i].close * period < here /\ here < before THEN -1
            ELSE 0

StrictlyRising(df) == \A i \in 2..Len(df) : df[i - 1].close < df[i].close

StrictlyFalling(df) == \A i \in 2..Len(df) : df[i - 1].close > df[i].close

C11_TrendPerRow ==
    (u_args.op = "detect_trend" /\ u_out.done) =>
        LET df == u_args.df
            long == u_args.period = SmaPeriod /\ Len(df) = SmaPeriod + 10
        IN /\ Len(u_out.val) = Len(df)
           /\ \A i \in 1..Len(df) :
                  u_out.val[i] = ExpectedTrend(df, u_args.period, i)
           /\ (long /\ StrictlyRising(df)) => u_out.val[Len(df)] = 1
           /\ (long /\ StrictlyFalling(df)) => u_out.val[Len(df)] = -1

\* one series with an undefined row, an uptrend row and a downtrend row
C11_Witness ==
    /\ u_args.op = "detect_trend" /\ u_out.done
    /\ u_args.period > 1
    /\ \E i, j \in 1..Len(u_args.df) :
           /\ u_out.val[1] = 0
           /\ u_out.val[i] = 1
           /\ u_out.val[j] = -1

(***************************************************************************)
(* C12.  price_change_24h of analyze_asset, in both analyzers, is absent   *)
(* when the table has fewer than 24 rows; otherwise it is the percentage   *)
(* change from the close 24 rows before the last row to the last close,    *)
(* (close[last] / close[last - 24] - 1) * 100.  Where the table has        *)
(* exactly 24 rows there is no row 24 rows before the last: there the      *)
(* formula asks only that a value is present.                              *)
(***************************************************************************)
C12_PriceChange24Rows ==
    (u_args.op = "analyze_asset" /\ u_out.done) =>
        LET df == u_args.df
            change == u_out.val.price_change_24h
            last == df[Len(df)].close
        IN IF Len(df) < DayRows THEN change.none
           ELSE /\ ~change.none
                /\ ~change.val.nan
                /\ Len(df) > DayRows =>
                       LET base == df[Len(df) - DayRows].close
                       IN change.val.n * base = (last - base) * 100 * change.val.d

(***************************************************************************)
(* C13.  Volatility-Band analyze_market with min_volatility configured:    *)
(* every asset of assets_analysis, which are the assets total_assets       *)
(* counts, has at least 20 rows and an avg_volatility that is not below    *)
(* min_volatility; an asset with fewer than 20 rows, or with an            *)
(* avg_volatility below min_volatility, is not in assets_analysis.  An     *)
(* avg_volatility that is NaN is not below anything.                       *)
(***************************************************************************)
ItemsOf(symbol) == {i \in 1..Len(m_market) : m_market[i].symbol = symbol}

Below(volatility, min_volatility) ==
    ~volatility.nan /\ volatility.n * min_volatility.d < min_volatility.n * volatility.d

C13_MinVolatility ==
    (m_out.done /\ m_analyzer.kind = "a" /\ ~m_analyzer.min_volatility.none) =>
        LET assets_analysis == m_out.result.assets_analysis
            min_volatility == m_analyzer.min_volatility.val
            analysed == {assets_analysis[k].symbol : k \in 1..Len(assets_analysis)}
        IN /\ m_out.result.market_stats.total_assets = Len(assets_analysis)
           /\ \A k \in 1..Len(assets_analysis) :
                  /\ \E i \in ItemsOf(assets_analysis[k].symbol) :
                         Len(m_market[i].df) >= MinRows
                  /\ ~Below(assets_analysis[k].analysis.avg_volatility, min_volatility)
           /\ \A i \in 1..Len(m_market) :
                  (\/ Len(m_market[i].df) < MinRows
                   \/ Below(market_a_analyze_asset(m_market[i].df,
                                                   m_analyzer).avg_volatility,
                            min_volatility))
                      => m_market[i].symbol \notin analysed

\* of two assets with 20 rows or more, the quiet one was left out
C13_Witness ==
    /\ m_out.done /\ m_analyzer.kind = "a" /\ ~m_analyzer.min_volatility.none
    /\ Len(m_market) = 2
    /\ \A i \in 1..2 : Len(m_market[i].df) >= MinRows
    /\ Len(m_out.result.assets_analysis) = 1
    /\ ~m_out.result.assets_analysis[1].analysis.avg_volatility.nan

(***************************************************************************)
(* C14.  Displayed progress never exceeds total: at every step of          *)
(* download_with_progress the byte count reported to the bar so far is at  *)
(* most the total read from the content-length header (0 without the       *)
(* header), and at every step of manual_progress the count is at most 100, *)
(* and exactly 100 after the 10th step.                                    *)
(***************************************************************************)
C14_ProgressAtMostTotal ==
    /\ pb.op = "download" => pb.n <= pb.total
    /\ pb.op = "manual" => pb.n <= ManualTotal
    /\ (pb.op = "manual" /\ pb.i = ManualSteps) => pb.n = ManualTotal

(***************************************************************************)
(* C15.  The cache validity check: a cache file, kline table or symbol     *)
(* list, is valid if and only if it exists and less than 4 hours lie       *)
(* between its last modification and now.  A file modified 3 hours ago is  *)
(* valid; one modified 4 or 5 hours ago, or a missing one, is not.  The    *)
(* clock counts whole hours, so "less than 4" is "at most 3".              *)
(***************************************************************************)
HoursOld(dir, path, now) == now - dir[path].mtime

C15_CacheValidity ==
    f_last.op = "valid" =>
        LET path == f_last.symbol
            exists == path \in DOMAIN f_last.before
        IN /\ f_last.ret \in BOOLEAN
           /\ f_last.ret <=>
                  (exists /\ HoursOld(f_last.before, path, f_last.now) + 1
                                 <= CacheDurationHours)
           /\ ~exists => ~f_last.ret
           /\ (exists /\ HoursOld(f_last.before, path, f_last.now) = 3) => f_last.ret
           /\ (exists /\ HoursOld(f_last.before, path, f_last.now) = 5) => ~f_last.ret

\* a symbols file modified 3 hours ago was found valid
C15_Witness ==
    /\ f_last.op = "valid"
    /\ f_last.symbol = SymbolsPath
    /\ SymbolsPath \in DOMAIN f_last.before
    /\ HoursOld(f_last.before, SymbolsPath, f_last.now) = 3
    /\ f_last.ret = TRUE

(***************************************************************************)
(* C16.  The cache path of (symbol, interval): one file per symbol and     *)
(* interval.  A minute interval n is rendered "<n>min" whether it is       *)
(* passed as the number n or as the text of n, so '60' and 60 name the     *)
(* same file "<symbol>_60min.parquet"; the calendar codes 'D', 'W', 'M'    *)
(* are used as they are.                                                   *)
(***************************************************************************)
RenderedInterval(interval) ==
    IF IsCalendar(interval) THEN interval.s
    ELSE NatToStr(DocMinutes(interval)) \o <<"m", "i", "n">>

C16_OneFilePerInterval ==
    (u_args.op = "get_cache_path" /\ u_out.done) =>
        u_out.val = u_args.symbol \o <<"_">> \o RenderedInterval(u_args.interval)
                        \o <<".", "p", "a", "r", "q", "u", "e", "t">>

(***************************************************************************)
(* C17.  Forward-fill of the resampled values in ModifiedATR.calculate:    *)
(* the values of a resampled bucket appear on the fine rows only after     *)
(* the bucket has closed, so no fine row carries an ATR or a Close that    *)
(* was computed from bars later than itself: what a row carries is what    *)
(* it carries when the table ends with that row.                           *)
(***************************************************************************)
UpTo(df, i) == SubSeq(df, 1, i)

C17_NoLookahead ==
    (u_args.op = "calculate" /\ u_out.done) =>
        \A i \in 1..Len(u_args.df) :
            LET then == calculate(UpTo(u_args.df, i), u_args.atr)
            IN /\ u_out.val.Close[i] = then.Close[i]
               /\ u_out.val.ATR[i] = then.ATR[i]

(***************************************************************************)
(* C18.  In the Moving-Average run (main.main) the second                  *)
(* load_latest_analysis yields the record the first one yielded right      *)
(* after save_analysis; so in every run, with or without earlier           *)
(* snapshots of the interval, and also when a load fails and returns the   *)
(* empty result, the comparison block is never entered and the run ends    *)
(* without raising.                                                        *)
(***************************************************************************)
C18_ComparisonNeverRuns ==
    mn.pc = "done" =>
        /\ mn.previous = mn.latest
        /\ ~mn.compared
        /\ ~mn.raised

(***************************************************************************)
(* C19.  Cache effectiveness across calls.  The cache directory starts     *)
(* empty and the symbol, interval and days of a run are fixed, so a whole  *)
(* table in the cache file was written by an earlier                       *)
(* get_kline_data(symbol, interval, days, use_cache=true) call that        *)
(* fetched it, at the hour the file is stamped with.  WrittenBefore is     *)
(* the state of the file a later use_cache call finds less than 4 hours    *)
(* after such a write.                                                     *)
(***************************************************************************)
KlinePath == get_cache_path(f_last.symbol, f_cfg.interval)

WrittenBefore ==
    /\ f_last.op = "kline" /\ f_last.use_cache
    /\ f_cfg.interval \in DocumentedIntervals
    /\ KlinePath \in DOMAIN f_last.before
    /\ ~f_last.before[KlinePath].corrupt
    /\ f_last.before[KlinePath].rows # <<>>
    /\ f_last.now - f_last.before[KlinePath].mtime < CacheDurationHours

\* the call fetched a table that is not empty and wrote it to the cache
FetchedAndWrote ==
    /\ f_last.op = "kline" /\ f_last.use_cache
    /\ f_last.requested /\ f_last.ret # <<>> /\ f_last.write = "ok"

\* C19 as claimed: after a call that fetched a table that is not empty and
\* wrote it to the cache, every later call with the same arguments less than
\* 4 hours after the write returns the same rows and issues no request,
\* whatever number of rows the exchange returned.
C19_CacheServesLaterCalls ==
    WrittenBefore =>
        /\ f_last.ret = f_last.before[KlinePath].rows
        /\ ~f_last.requested

\* C19 as amended: a call that fetched a table that is not empty and wrote
\* it leaves that table in the cache file, stamped with the hour of the
\* call; a later use_cache call with the same arguments, less than 4 hours
\* after the write, returns the last required-points rows of the written
\* table and issues no request when the table holds at least
\* required-points rows, and issues a request again when it holds fewer.
C19_CacheServesWhenLongEnough ==
    LET required == Min(1000, ExpectedPoints(f_cfg.days, f_cfg.interval)) IN
    /\ (FetchedAndWrote /\ f_cfg.interval \in DocumentedIntervals) =>
           /\ KlinePath \in DOMAIN f_dir
           /\ ~f_dir[KlinePath].corrupt
           /\ f_dir[KlinePath].rows = f_last.ret
           /\ f_dir[KlinePath].mtime = f_last.now
    /\ WrittenBefore =>
           IF Len(f_last.before[KlinePath].rows) >= required
           THEN /\ f_last.ret = LastRows(f_last.before[KlinePath].rows, required)
                /\ ~f_last.requested
           ELSE f_last.requested

\* an hour or more after the write, the call was served the written rows
C19_Witness ==
    /\ WrittenBefore
    /\ f_last.now > f_last.before[KlinePath].mtime
    /\ ~f_last.requested
    /\ f_last.ret = f_last.before[KlinePath].rows

(***************************************************************************)
(* C20.  The frame of a failed fetch.  A get_kline_data call that returns  *)
(* an empty table (empty response list, or an exception during request or  *)
(* parsing) leaves every cache file as it was.  A call with                *)
(* use_cache=false writes no cache file and reads none: what it returns    *)
(* is the exchange's answer, sorted, or the empty table.  A call that      *)
(* changes the cache directory changes the file of its symbol and          *)
(* interval only, and the table it puts there is not empty and is sorted   *)
(* ascending by timestamp; only a write that failed after it opened the    *)
(* file leaves no table there but an unreadable file.                      *)
(***************************************************************************)
IsAscending(rows) == \A i \in 2..Len(rows) : rows[i - 1] <= rows[i]

EmptyLeavesCache ==
    (f_last.op = "kline" /\ f_last.ret = <<>>) => f_dir = f_last.before

NoCacheNoTouch ==
    (f_last.op = "kline" /\ ~f_last.use_cache) =>
        /\ f_dir = f_last.before
        /\ f_last.ret # <<>> =>
               /\ f_last.requested /\ f_last.resp.kind = "rows"
               /\ Len(f_last.ret) = Len(f_last.resp.list)
               /\ IsAscending(f_last.ret)
               /\ \A i \in 1..Len(f_last.ret) :
                      \E j \in 1..Len(f_last.resp.list) : f_last.ret[i] = f_last.resp.list[j]
        /\ (f_last.resp.kind = "rows" /\ f_cfg.interval \in DocumentedIntervals) =>
               f_last.ret # <<>>

WholeTable(file) == ~file.corrupt /\ file.rows # <<>> /\ IsAscending(file.rows)

ReplacedByWholeTable ==
    (f_last.op = "kline" /\ f_dir # f_last.before) =>
        /\ DOMAIN f_dir = DOMAIN f_last.before \cup {KlinePath}
        /\ \A p \in DOMAIN f_last.before \ {KlinePath} : f_dir[p] = f_last.before[p]
        /\ f_dir[KlinePath].mtime = f_last.now
        /\ ~f_dir[KlinePath].corrupt => WholeTable(f_dir[KlinePath])
        /\ f_dir[KlinePath].corrupt => f_last.write # "ok"

C20_FailedFetchFrame == EmptyLeavesCache /\ NoCacheNoTouch /\ ReplacedByWholeTable

\* a fetch that failed with a whole cache file in place, which it left
C20_Witness ==
    /\ f_last.op = "kline" /\ f_last.use_cache
    /\ f_last.requested
    /\ f_last.resp.kind \in {"raise", "nolist", "badrows"}
    /\ f_last.ret = <<>>
    /\ KlinePath \in DOMAIN f_last.before
    /\ WholeTable(f_last.before[KlinePath])
    /\ f_dir = f_last.before

====
